---- MODULE Spec2Model ----
(***************************************************************************)
(* A model of the transport / pagination / dispatch / resolution core of   *)
(* the snyker SDK (src/snyker).                                            *)
(*                                                                         *)
(* The module holds these specifications over one set of variables:        *)
(*   SpecRL    APIClient.get/post/put/delete with the shared rate-limit    *)
(*             state, one process per calling thread, a discrete clock;    *)
(*   SpecPag   one APIClient.paginate generator, one step per page;        *)
(*   SpecRes   the relationship resolvers of Group, Project and            *)
(*             Organization and the root auto-discovery;                   *)
(*   SpecPool  the ThreadPoolExecutor behind submit_task / close;          *)
(*   SpecBatch the batch fetches over the executor;                        *)
(*   SpecFac   the from_api_response factories;                            *)
(*   SpecIssue the issue's lazy project resolution;                        *)
(*   SpecCool  the cooldown arithmetic of _handle_response / _rate_limit;  *)
(*   SpecRetry the connection-level Retry of the session;                  *)
(*   SpecNest  construction tasks that fan out inside the one pool;        *)
(*   SpecRace  two threads reading one unfilled relationship;              *)
(*   SpecShut  a batch fetch that runs into close();                       *)
(*   SpecById  GroupPydanticModel.get_organization_by_id;                  *)
(*   SpecTest  ProjectPydanticModel.test_api, with SpecTestLive for its    *)
(*             termination.                                                *)
(* A specification leaves the variables of the others at their initial     *)
(* value.                                                                  *)
(***************************************************************************)
EXTENDS Integers, Sequences, FiniteSets, TLC

VARIABLES
    \* ---- SpecRL: APIClient rate-limit state and calling threads
    now,                \* the wall clock, time.time(), in whole seconds
    rate_limit_delay,   \* APIClient.rate_limit_delay
    last_request_time,  \* APIClient.last_request_time
    lock,               \* holder of APIClient._rate_limit_lock, 0 = free
    pc,                 \* per thread: position inside get/post/put/delete
    cur,                \* per thread: current_time sampled in _handle_response
    resp,               \* per thread: the response session.<method> returned
    wake,               \* per thread: end of the time.sleep in _rate_limit
    result,             \* per thread: outcome of the last finished call
    calls,              \* per thread: calls started so far
    coolUntil,          \* history: latest (time of a 429) + (its Retry-After)
    sentAt,             \* history, per thread: clock at the last send
    sentCool,           \* history, per thread: coolUntil at the last send
    waitsServed,        \* history: sleeps of _rate_limit begun since the last 429
    held                \* history, per thread: the request about to go out or
                        \* on the wire was held back by a delay in _rate_limit

rlVars == <<now, rate_limit_delay, last_request_time, lock, pc, cur,
            resp, wake, result, calls, coolUntil, sentAt, sentCool,
            waitsServed, held>>

VARIABLES
    \* ---- SpecPag: one APIClient.paginate generator
    pgPc,            \* "idle", "run" (inside the while loop), "done", "raised"
    pgParams,        \* the params argument: "none", "empty" ({}), "filter"
    pgDataKey,       \* whether data_key was given
    pgMaxPages,      \* max_pages, -1 for None
    current_params,  \* paginate's current_params: "empty" or "filter"
    page_count,      \* paginate's page_count
    next_url,        \* paginate's next_page_url_or_relative_path
    lastReq,         \* the last self.get issued: its number, the next-link
                     \* of the response before it, its endpoint and params
    prevLink,        \* the next-link the last response carried
    yielded,         \* the items yielded so far, in order
    pgErrors,        \* error-level log entries of this call
    pgWarnings,      \* warning-level log entries of this call
    pgResp,          \* the answer to the last self.get of this call
    pgBefore,        \* the items yielded before the last self.get
    pgPages,         \* the bodies answered to the requests of this call, in order
    pgEndpoint,      \* the endpoint argument of the call
    pgCalls          \* paginate calls made with these arguments

pagVars == <<pgPc, pgParams, pgDataKey, pgMaxPages, current_params, page_count,
             next_url, lastReq, prevLink, yielded, pgErrors, pgWarnings,
             pgResp, pgBefore, pgPages, pgEndpoint, pgCalls>>

VARIABLES
    \* ---- SpecPool: the ThreadPoolExecutor of the client
    task,            \* per task: "new", "pending", "running", "done", "failed"
    shutdown,        \* the executor's shutdown flag
    closePc,         \* APIClient.close(): "open", "closing", "closed"
    refused,         \* whether the last submit_task raised
    atClose          \* history: the tasks pending or running when close() began

poolVars == <<task, shutdown, closePc, refused, atClose>>

VARIABLES
    \* ---- SpecRes: the entities and their relationship caches
    loading_strategy,   \* API_CONFIG["loading_strategy"]
    g_pc,               \* the Group: "absent", "eager_orgs", "eager_issues", "ready"
    g_built,            \* the loading strategy get_instance read when it built the Group
    g_organizations,    \* GroupPydanticModel._organizations
    g_issues,           \* GroupPydanticModel._issues
    p_issues,           \* ProjectPydanticModel._issues
    o_projects,         \* Organization.projects
    nextObj,            \* list objects created so far
    last                \* the last finished operation and what it did

resVars == <<loading_strategy, g_pc, g_built, g_organizations, g_issues, p_issues,
             o_projects, nextObj, last>>

VARIABLES
    \* ---- SpecBatch: one fan-out of a resolver
    bPc,         \* the resolver: "idle", "submitting", "collecting", "returned"
    bN,          \* payloads the resolver has to submit tasks for
    bFuture,     \* future -> "unsubmitted", "running", "returned", "falsy", "raised"
    bFinished,   \* the futures in the order they completed
    bEarly,      \* futures as_completed found complete when called, not yet yielded
    bLate,       \* waiter.finished_futures: completed since, not yet yielded
    bYielded,    \* the futures in the order as_completed yielded them
    bResults,    \* org_results / issue_results
    bErrors      \* error entries logged by the collection loop

batchVars == <<bPc, bN, bFuture, bFinished, bEarly, bLate, bYielded, bResults,
               bErrors>>

VARIABLES
    \* ---- SpecFac: ProjectPydanticModel.from_api_response and the entity it builds
    fac,         \* the last call of the factory and what it did
    proj,        \* the project entity the factory returned last
    iss          \* an issue the project obtained from its organization

facVars == <<fac, proj, iss>>

VARIABLES
    \* ---- SpecIssue: one Issue and the calls of its get_project
    issue,       \* the Issue object: its context and the ids of its relationships
    icall        \* the last call on the Issue and what it did

issueVars == <<issue, icall>>

VARIABLES
    \* ---- SpecCool: the rate-limit state of one APIClient, call after call
    cdClock,     \* time.time(), in whole seconds
    cdDelay,     \* APIClient.rate_limit_delay
    cdLast,      \* APIClient.last_request_time
    cdEv         \* the last step: what was handled or waited for

coolVars == <<cdClock, cdDelay, cdLast, cdEv>>

VARIABLES
    \* ---- SpecRetry: one call of get/post/put/delete through the session
    rtPc,        \* "idle", "wire" (inside session.<method>), "returned", "raised"
    rtMethod,    \* the HTTP method of the call
    rtLeft,      \* Retry.total still left
    rtSends,     \* times the request of this call was put on the wire
    rtLast,      \* what the last attempt met: a status, or an error
    rtApiSends   \* times APIClient itself called session.<method> for the call

retryVars == <<rtPc, rtMethod, rtLeft, rtSends, rtLast, rtApiSends>>

VARIABLES
    \* ---- SpecNest: construction tasks that resolve through the same pool
    nQueue,      \* the executor's work queue, oldest first
    nParent,     \* per construction task: "new", "queued", "running",
                 \* "waiting" (inside as_completed), "done"
    nKids        \* per construction task: its sub-tasks queued, running, done

nestVars == <<nQueue, nParent, nKids>>

VARIABLES
    \* ---- SpecRace: threads reading Group.organizations of one group
    rcCache,     \* Group._organizations: 0 for None, else the list's identity
    rcPc,        \* per thread: "idle", "fetch", "paginate", "store", "ret", "done"
    rcPage,      \* per thread: what its pagination gave
    rcRet,       \* per thread: the list the property returned, 0 before
    rcFetches    \* paginations of /rest/groups/{id}/orgs so far

raceVars == <<rcCache, rcPc, rcPage, rcRet, rcFetches>>

VARIABLES
    \* ---- SpecShut: Group.fetch_organizations while the client is closed
    shPc,        \* the resolver: "idle", "submitting", "collecting",
                 \* "returned", "raised"
    shN,         \* payloads the pagination gathered
    shSubmitted, \* futures submit_task has returned
    shDone,      \* tasks of this fan-out that are complete
    shShutdown,  \* the executor's shutdown flag, set by close()
    shOp,        \* the resolver that runs
    shAtClose,   \* futures submit_task had returned when close() was called
    shRefused,   \* a submit_task of this resolution raised RuntimeError
    shCache      \* Group._organizations: "unset", or a list: "empty", "all"
                 \* (one entry per payload at most), "partial"

shutVars == <<shPc, shN, shSubmitted, shDone, shShutdown, shOp, shAtClose,
              shRefused, shCache>>

VARIABLES
    \* ---- SpecById: GroupPydanticModel.get_organization_by_id
    biCache,        \* GroupPydanticModel._organizations: NoOrgList or a list
    biPc,           \* where the call stands: idle, lookup, fetch, returned, raised
    biArg,          \* the org_id argument of the call
    biBefore,       \* _organizations when the call was made
    biResp,         \* what GET /rest/orgs/{org_id} answered in this call
    biRet,          \* what the call returned
    biRequests,     \* requests sent by this call
    biCalls         \* calls made so far
byIdVars == <<biCache, biPc, biArg, biBefore, biResp, biRet, biRequests, biCalls>>

VARIABLES
    \* ---- SpecTest: ProjectPydanticModel.test_api
    taPc,           \* where the call stands: idle, post, poll, findings, returned, raised
    taDelay,        \* local_delay, in seconds
    ta429Prev,      \* the sleep of the 429 before the last one in this loop, 0 if none
    ta429Last,      \* the sleep of the last 429 in this loop, 0 if none
    taBetween,      \* an 'in_progress' poll came between the last two 429s
    taSince,        \* an 'in_progress' poll came since the last 429
    taPost,         \* what the last POST answered
    taState,        \* what the last poll answered
    taContent,      \* what the findings URL answered
    taRet,          \* what the call returned: 0 is None, n the SARIF data of call n
    taSarif,        \* _sarif_data, as taRet
    taSarifBefore,  \* _sarif_data when the call was made
    taBusy,         \* answers of this call that made it wait
    taCalls         \* calls made so far
testVars == <<taPc, taDelay, ta429Prev, ta429Last, taBetween, taSince, taPost, taState,
    taContent, taRet, taSarif, taSarifBefore, taBusy, taCalls>>

vars == <<rlVars, pagVars, poolVars, resVars, batchVars, facVars, issueVars,
          coolVars, retryVars,
    nestVars,
    raceVars,
    shutVars,
    byIdVars,
    testVars>>

otherThanRL == <<pagVars, poolVars, resVars, batchVars, facVars, issueVars,
    coolVars, retryVars,
    nestVars,
    raceVars,
    shutVars,
    byIdVars,
    testVars>>
otherThanPag == <<rlVars, poolVars, resVars, batchVars, facVars, issueVars,
    coolVars, retryVars,
    nestVars,
    raceVars,
    shutVars,
    byIdVars,
    testVars>>
otherThanPool == <<rlVars, pagVars, resVars, batchVars, facVars, issueVars,
    coolVars, retryVars,
    nestVars,
    raceVars,
    shutVars,
    byIdVars,
    testVars>>
otherThanRes == <<rlVars, pagVars, poolVars, batchVars, facVars, issueVars,
    coolVars, retryVars,
    nestVars,
    raceVars,
    shutVars,
    byIdVars,
    testVars>>
otherThanBatch == <<rlVars, pagVars, poolVars, resVars, facVars, issueVars,
    coolVars, retryVars,
    nestVars,
    raceVars,
    shutVars,
    byIdVars,
    testVars>>
otherThanFac == <<rlVars, pagVars, poolVars, resVars, batchVars, issueVars,
    coolVars, retryVars,
    nestVars,
    raceVars,
    shutVars,
    byIdVars,
    testVars>>
otherThanIssue == <<rlVars, pagVars, poolVars, resVars, batchVars, facVars,
    coolVars, retryVars,
    nestVars,
    raceVars,
    shutVars,
    byIdVars,
    testVars>>
otherThanCool == <<rlVars, pagVars, poolVars, resVars, batchVars, facVars,
    issueVars, retryVars,
    nestVars,
    raceVars,
    shutVars,
    byIdVars,
    testVars>>
otherThanRetry == <<rlVars, pagVars, poolVars, resVars, batchVars, facVars,
    issueVars, coolVars,
    nestVars,
    raceVars,
    shutVars,
    byIdVars,
    testVars>>
otherThanNest == <<rlVars, pagVars, poolVars, resVars, batchVars, facVars,
    issueVars, coolVars, retryVars,
    raceVars,
    shutVars,
    byIdVars,
    testVars>>
otherThanRace == <<rlVars, pagVars, poolVars, resVars, batchVars, facVars,
    issueVars, coolVars, retryVars, nestVars,
    shutVars,
    byIdVars,
    testVars>>
otherThanShut == <<rlVars, pagVars, poolVars, resVars, batchVars, facVars,
    issueVars, coolVars, retryVars, nestVars, raceVars,
    byIdVars,
    testVars>>
otherThanById == <<rlVars, pagVars, poolVars, resVars, batchVars, facVars,
    issueVars, coolVars, retryVars, nestVars, raceVars, shutVars,
    testVars>>
otherThanTest == <<rlVars, pagVars, poolVars, resVars, batchVars, facVars,
    issueVars, coolVars, retryVars, nestVars, raceVars, shutVars, byIdVars>>

Max(a, b) == IF a >= b THEN a ELSE b

(***************************************************************************)
(* Bounds of the model.                                                    *)
(***************************************************************************)
MaxCalls == 2
MaxTime == 3
MaxRetryAfter == 1

\* The calling threads.
Threads == {1, 2}

(***************************************************************************)
(* SpecRL                                                                  *)
(***************************************************************************)
\* API_CONFIG["default_rate_limit_retry_after"]
DefaultRetryAfter == 5

\* Status codes a server answers with; 304 stands for the 3xx answers that
\* requests hands back to the caller (no redirect to follow).
Statuses == {200, 304, 429, 500}

\* The Retry-After header of a response: absent, not all digits, or digits.
RetryAfterHeaders ==
    {[kind |-> "absent", val |-> 0], [kind |-> "text", val |-> 0]}
        \cup {[kind |-> "digits", val |-> v] : v \in 0..MaxRetryAfter}

NoResp == [status |-> 0, retry |-> [kind |-> "absent", val |-> 0]]
NoResult == [kind |-> "none", resp |-> NoResp]

\* response.raise_for_status(): requests raises HTTPError for 4xx and 5xx.
RaiseForStatus_5xxOnly(st) == st >= 500 /\ st < 600
RaiseForStatus(st) == st >= 400 /\ st < 600

\* _handle_response, lines 152-157: the delay stored on a 429.
DelayOn429_asHeader(delay, h) ==
    IF h.kind = "digits" THEN h.val ELSE DefaultRetryAfter
DelayOn429(delay, h) ==
    IF h.kind = "digits" THEN h.val + 1 ELSE Max(delay, DefaultRetryAfter)

\* _rate_limit, line 120: the delay is reset once the lock holder has
\* waited, or found nothing left to wait for.
DelayAfterWait_keep(delay) == delay
DelayAfterWait(delay) == 0

RLStart ==
    /\ now = 0
    /\ rate_limit_delay = 0
    /\ last_request_time = 0
    /\ lock = 0
    /\ pc = [t \in Threads |-> "idle"]
    /\ cur = [t \in Threads |-> 0]
    /\ resp = [t \in Threads |-> NoResp]
    /\ wake = [t \in Threads |-> 0]
    /\ result = [t \in Threads |-> NoResult]
    /\ calls = [t \in Threads |-> 0]
    /\ coolUntil = 0
    /\ sentAt = [t \in Threads |-> 0]
    /\ sentCool = [t \in Threads |-> 0]
    /\ waitsServed = 0
    /\ held = [t \in Threads |-> FALSE]

\* A thread calls get/post/put/delete (the four methods run the same steps):
\* control enters _rate_limit().
Call(t) ==
    /\ UNCHANGED otherThanRL
    /\ UNCHANGED held
    /\ UNCHANGED waitsServed
    /\ pc[t] = "idle"
    /\ calls[t] < MaxCalls
    /\ calls' = [calls EXCEPT ![t] = @ + 1]
    /\ pc' = [pc EXCEPT ![t] = "rl_check"]
    /\ resp' = [resp EXCEPT ![t] = NoResp]
    /\ result' = [result EXCEPT ![t] = NoResult]
    /\ UNCHANGED <<now, rate_limit_delay, last_request_time, lock, cur, wake,
                   coolUntil, sentAt, sentCool>>

\* _rate_limit, lines 110-111: the unlocked read of rate_limit_delay.
RLCheck(t) ==
    /\ UNCHANGED otherThanRL
    /\ UNCHANGED waitsServed
    /\ pc[t] = "rl_check"
    /\ pc' = [pc EXCEPT ![t] = IF rate_limit_delay <= 0 THEN "send" ELSE "rl_lock"]
    /\ held' = [held EXCEPT ![t] = rate_limit_delay > 0]
    /\ UNCHANGED <<now, rate_limit_delay, last_request_time, lock, cur,
                   resp, wake, result, calls, coolUntil, sentAt, sentCool>>

\* _rate_limit, lines 113-120: the lock is taken; the delay is read again and
\* the wait computed. With nothing to wait for the lock is released at once.
RLAcquire(t) ==
    /\ UNCHANGED otherThanRL
    /\ UNCHANGED held
    /\ pc[t] = "rl_lock"
    /\ lock = 0
    /\ LET wait_time == rate_limit_delay - (now - last_request_time) IN
         IF rate_limit_delay > 0 /\ wait_time > 0
         THEN /\ lock' = t
              /\ wake' = [wake EXCEPT ![t] = now + wait_time]
              /\ pc' = [pc EXCEPT ![t] = "rl_sleep"]
              /\ waitsServed' = waitsServed + 1
              /\ UNCHANGED rate_limit_delay
         ELSE /\ rate_limit_delay' = DelayAfterWait(rate_limit_delay)
              /\ pc' = [pc EXCEPT ![t] = "send"]
              /\ UNCHANGED <<lock, wake, waitsServed>>
    /\ UNCHANGED <<now, last_request_time, cur, resp, result, calls,
                   coolUntil, sentAt, sentCool>>

\* _rate_limit, lines 119-120: time.sleep returns, the delay is reset and the
\* lock released.
RLWake(t) ==
    /\ UNCHANGED otherThanRL
    /\ UNCHANGED held
    /\ UNCHANGED waitsServed
    /\ pc[t] = "rl_sleep"
    /\ now >= wake[t]
    /\ rate_limit_delay' = DelayAfterWait(rate_limit_delay)
    /\ lock' = 0
    /\ wake' = [wake EXCEPT ![t] = 0]
    /\ pc' = [pc EXCEPT ![t] = "send"]
    /\ UNCHANGED <<now, last_request_time, cur, resp, result, calls,
                   coolUntil, sentAt, sentCool>>

\* get, line 190 (post 218, put 246, delete 272): the request goes out.
Send(t) ==
    /\ UNCHANGED otherThanRL
    /\ UNCHANGED held
    /\ UNCHANGED waitsServed
    /\ pc[t] = "send"
    /\ pc' = [pc EXCEPT ![t] = "wire"]
    /\ sentAt' = [sentAt EXCEPT ![t] = now]
    /\ sentCool' = [sentCool EXCEPT ![t] = coolUntil]
    /\ UNCHANGED <<now, rate_limit_delay, last_request_time, lock, cur,
                   resp, wake, result, calls, coolUntil>>

\* session.<method> returns a response; _handle_response samples
\* current_time (line 140) before it takes the lock.
Recv(t) ==
    /\ UNCHANGED otherThanRL
    /\ UNCHANGED waitsServed
    /\ pc[t] = "wire"
    /\ \E st \in Statuses, h \in RetryAfterHeaders :
         /\ (st # 429 => h.kind = "absent")
         /\ resp' = [resp EXCEPT ![t] = [status |-> st, retry |-> h]]
    /\ cur' = [cur EXCEPT ![t] = now]
    /\ pc' = [pc EXCEPT ![t] = "hr_lock"]
    /\ sentAt' = [sentAt EXCEPT ![t] = 0]
    /\ sentCool' = [sentCool EXCEPT ![t] = 0]
    /\ held' = [held EXCEPT ![t] = FALSE]
    /\ UNCHANGED <<now, rate_limit_delay, last_request_time, lock, wake,
                   result, calls, coolUntil>>

\* _handle_response, lines 141-163: under the lock last_request_time is set,
\* and on a 429 the delay; the response is returned or the HTTPError re-raised.
HandleResponse(t) ==
    /\ UNCHANGED otherThanRL
    /\ UNCHANGED held
    /\ pc[t] = "hr_lock"
    /\ lock = 0
    /\ last_request_time' = cur[t]
    /\ IF RaiseForStatus(resp[t].status)
       THEN /\ result' = [result EXCEPT ![t] = [kind |-> "raised", resp |-> resp[t]]]
            /\ IF resp[t].status = 429
               THEN /\ rate_limit_delay' = DelayOn429(rate_limit_delay, resp[t].retry)
                    /\ waitsServed' = 0
                    /\ coolUntil' = IF resp[t].retry.kind = "digits"
                                    THEN Max(coolUntil, cur[t] + resp[t].retry.val)
                                    ELSE coolUntil
               ELSE UNCHANGED <<rate_limit_delay, coolUntil, waitsServed>>
       ELSE /\ result' = [result EXCEPT ![t] = [kind |-> "returned", resp |-> resp[t]]]
            /\ UNCHANGED <<rate_limit_delay, coolUntil, waitsServed>>
    /\ pc' = [pc EXCEPT ![t] = "idle"]
    /\ UNCHANGED <<now, lock, cur, resp, wake, calls, sentAt, sentCool>>

\* The clock advances.
Tick ==
    /\ UNCHANGED otherThanRL
    /\ UNCHANGED held
    /\ UNCHANGED waitsServed
    /\ now < MaxTime
    /\ now' = now + 1
    /\ UNCHANGED <<rate_limit_delay, last_request_time, lock, pc, cur,
                   resp, wake, result, calls, coolUntil, sentAt, sentCool>>

NextRL ==
    \/ \E t \in Threads : Call(t)
    \/ \E t \in Threads : RLCheck(t)
    \/ \E t \in Threads : RLAcquire(t)
    \/ \E t \in Threads : RLWake(t)
    \/ \E t \in Threads : Send(t)
    \/ \E t \in Threads : Recv(t)
    \/ \E t \in Threads : HandleResponse(t)
    \/ Tick

(***************************************************************************)
(* SpecPag: APIClient.paginate, lines 343-402. One action per iteration of *)
(* the while loop; the server's answer to the page request is an input.    *)
(***************************************************************************)
MaxFetch == 3       \* pages one call may fetch in the model
MaxItems == 2       \* length of the array at data_key
MaxPagesArg == 2    \* largest max_pages argument

\* A next-link (or the endpoint argument): a relative path, an absolute URL
\* under base_url, or another absolute http(s) URL; cur names the page.
LinkForms == {"rel", "base", "other"}
NoLink == [form |-> "none", cur |-> 0]
Link(f, c) == [form |-> f, cur |-> c]

NoReq == [n |-> 0, from |-> NoLink, endpoint |-> NoLink, params |-> "none"]

\* Lines 353-355: the startswith tests.
IsAbsolute(l) == l.form \in {"base", "other"}

\* Lines 356-359 and 363: the endpoint handed to self.get; the base_url
\* prefix of a link is cut off, any other link is passed as it is.
EndpointFor(l) == IF l.form = "base" THEN Link("rel", l.cur) ELSE l

\* Lines 361 and 364: the params handed to self.get.
CallParams(l, cp, n) ==
    IF IsAbsolute(l) THEN (IF n = 0 THEN cp ELSE "none") ELSE cp

\* Line 401: current_params after a page that carries a next-link.
ParamsAfterPage_keep(cp) == cp
ParamsAfterPage(cp) == "empty"

\* The answers of the server to the request for page c.
PageResponses(c) ==
    {[kind |-> k, data |-> "missing", n |-> 0, linksOk |-> FALSE, next |-> NoLink] :
        k \in {"error", "notjson", "array"}}
    \cup
    {[kind |-> "object", data |-> d.k, n |-> d.n, linksOk |-> lk.ok, next |-> lk.next] :
        d \in {[k |-> "missing", n |-> 0], [k |-> "scalar", n |-> 0]}
                \cup {[k |-> "list", n |-> i] : i \in 0..MaxItems},
        lk \in {[ok |-> FALSE, next |-> NoLink], [ok |-> TRUE, next |-> NoLink]}
                \cup {[ok |-> TRUE, next |-> Link(f, c + 1)] : f \in LinkForms}}

NoPage == [kind |-> "none", data |-> "missing", n |-> 0, linksOk |-> FALSE,
           next |-> NoLink]

\* Lines 343 and 347-350: a call starts from its own arguments, the
\* endpoint and a copy of the params; `left` is where an earlier call
\* stopped.
FirstAddress_resumed(endpoint, left) == IF left = NoLink THEN endpoint ELSE left
FirstAddress(endpoint, left) == endpoint

FirstParams(params) == IF params = "filter" THEN "filter" ELSE "empty"

\* Line 352: the condition of the while loop.
MayFetch_inclusive(next, count, maxPages) ==
    next # NoLink /\ (maxPages = -1 \/ count <= maxPages)
MayFetch(next, count, maxPages) ==
    next # NoLink /\ (maxPages = -1 \/ count < maxPages)

\* Lines 373 and 386: the break after a body that is no JSON, and after a
\* page without the data_key.
AfterMalformedPage_goOn(at) == at
AfterMalformedPage(at) == "done"

\* Lines 380-382: a value at data_key that is no list is yielded whole.
NonListItems_none(page) == <<>>
NonListItems(page) == <<[page |-> page, ix |-> 0]>>

\* Line 379, yield from items: the n elements of the array, first to last.
ListItems_reversed(page, n) == [i \in 1..n |-> [page |-> page, ix |-> n + 1 - i]]
ListItems(page, n) == [i \in 1..n |-> [page |-> page, ix |-> i]]

\* Lines 375-388: what one parsed page makes the generator yield.
ItemsOf(page, r, dataKey) ==
    IF ~dataKey THEN <<[page |-> page, ix |-> 0]>>
    ELSE IF r.data = "list" THEN ListItems(page, r.n)
    ELSE IF r.data = "scalar" THEN NonListItems(page)
    ELSE <<>>

PagIdle ==
    /\ pgPc = "idle"
    /\ pgParams = "none"
    /\ pgDataKey = FALSE
    /\ pgMaxPages = -1
    /\ current_params = "empty"
    /\ page_count = 0
    /\ next_url = NoLink
    /\ lastReq = NoReq
    /\ prevLink = NoLink
    /\ yielded = <<>>
    /\ pgErrors = 0
    /\ pgWarnings = 0
    /\ pgResp = NoPage
    /\ pgBefore = <<>>
    /\ pgPages = <<>>
    /\ pgEndpoint = NoLink
    /\ pgCalls = 0

\* paginate(endpoint, params, data_key, max_pages) is called, lines 343-350.
PaginateCall ==
    /\ UNCHANGED otherThanPag
    /\ pgPc = "idle"
    /\ \E p \in {"none", "empty", "filter"}, dk \in BOOLEAN,
          mp \in -1..MaxPagesArg, f \in LinkForms :
         /\ pgParams' = p
         /\ pgDataKey' = dk
         /\ pgMaxPages' = mp
         /\ current_params' = FirstParams(p)
         /\ pgEndpoint' = Link(f, 1)
         /\ next_url' = FirstAddress(Link(f, 1), next_url)
    /\ page_count' = 0
    /\ pgCalls' = 1
    /\ pgPc' = "run"
    /\ UNCHANGED <<lastReq, prevLink, yielded, pgErrors, pgWarnings,
                   pgResp, pgBefore, pgPages>>

\* Line 352: the while condition is false, the generator ends.
PaginateEnd ==
    /\ UNCHANGED otherThanPag
    /\ pgPc = "run"
    /\ ~MayFetch(next_url, page_count, pgMaxPages)
    /\ pgPc' = "done"
    /\ UNCHANGED <<pgParams, pgDataKey, pgMaxPages, current_params, page_count,
                   next_url, lastReq, prevLink, yielded, pgErrors, pgWarnings,
                   pgResp, pgBefore, pgPages, pgEndpoint, pgCalls>>

\* Lines 352-402: one iteration, the page request and what follows it.
PaginatePage ==
    /\ UNCHANGED otherThanPag
    /\ pgPc = "run"
    /\ MayFetch(next_url, page_count, pgMaxPages)
    /\ page_count < MaxFetch
    /\ pgBefore' = yielded
    /\ lastReq' = [n |-> page_count + 1,
                   from |-> prevLink,
                   endpoint |-> EndpointFor(next_url),
                   params |-> CallParams(next_url, current_params, page_count)]
    /\ \E r \in PageResponses(next_url.cur) :
         /\ pgResp' = r
         /\ pgPages' = Append(pgPages, [kind |-> r.kind, data |-> r.data, n |-> r.n])
         /\ IF r.kind = "error"
            THEN \* self.get raises, line 366: the generator raises
                 /\ pgPc' = "raised"
                 /\ UNCHANGED <<page_count, next_url, current_params, yielded,
                                prevLink, pgErrors, pgWarnings>>
            ELSE
                 /\ page_count' = page_count + 1
                 /\ prevLink' = IF r.kind = "object" /\ r.linksOk THEN r.next ELSE NoLink
                 /\ IF r.kind = "notjson"
                    THEN \* lines 371-373
                         /\ pgErrors' = pgErrors + 1
                         /\ pgPc' = AfterMalformedPage(pgPc)
                         /\ UNCHANGED <<next_url, current_params, yielded, pgWarnings>>
                    ELSE IF r.kind = "array"
                    THEN \* a JSON body that is no object: .get raises (the whole
                         \* body is yielded first when there is no data_key)
                         /\ pgPc' = "raised"
                         /\ yielded' = IF pgDataKey THEN yielded
                                       ELSE yielded \o ItemsOf(page_count + 1, r, FALSE)
                         /\ UNCHANGED <<next_url, current_params, pgErrors, pgWarnings>>
                    ELSE IF pgDataKey /\ r.data = "missing"
                    THEN \* lines 383-386
                         /\ pgWarnings' = pgWarnings + 1
                         /\ pgPc' = AfterMalformedPage(pgPc)
                         /\ UNCHANGED <<next_url, current_params, yielded, pgErrors>>
                    ELSE \* lines 375-402
                         /\ yielded' = yielded \o ItemsOf(page_count + 1, r, pgDataKey)
                         /\ pgWarnings' = IF pgDataKey /\ r.data = "scalar"
                                          THEN pgWarnings + 1 ELSE pgWarnings
                         /\ next_url' = IF r.linksOk THEN r.next ELSE NoLink
                         /\ IF r.linksOk /\ r.next # NoLink
                            THEN /\ current_params' = ParamsAfterPage(current_params)
                                 /\ pgPc' = "run"
                            ELSE /\ pgPc' = "done"
                                 /\ UNCHANGED current_params
                         /\ UNCHANGED pgErrors
    /\ UNCHANGED <<pgParams, pgDataKey, pgMaxPages, pgEndpoint, pgCalls>>

\* paginate is called a second time with the same arguments, after the
\* generator of the first call has ended: lines 343-350 again.
PaginateAgain ==
    /\ UNCHANGED otherThanPag
    /\ pgPc \in {"done", "raised"}
    /\ pgCalls = 1
    /\ pgCalls' = pgCalls + 1
    /\ current_params' = FirstParams(pgParams)
    /\ page_count' = 0
    /\ next_url' = FirstAddress(pgEndpoint, next_url)
    /\ lastReq' = NoReq
    /\ prevLink' = NoLink
    /\ yielded' = <<>>
    /\ pgErrors' = 0
    /\ pgWarnings' = 0
    /\ pgResp' = NoPage
    /\ pgBefore' = <<>>
    /\ pgPages' = <<>>
    /\ pgPc' = "run"
    /\ UNCHANGED <<pgParams, pgDataKey, pgMaxPages, pgEndpoint>>

NextPag ==
    \/ PaginateCall
    \/ PaginateEnd
    \/ PaginatePage
    \/ PaginateAgain

(***************************************************************************)
(* SpecPool: the executor created in __init__ (line 86), submit_task       *)
(* (lines 293-295) and close (lines 305-306). A ThreadPoolExecutor runs    *)
(* the queued work items first-in first-out on at most max_workers         *)
(* threads; after shutdown() submit raises RuntimeError, the workers still *)
(* run what is queued, and shutdown(wait=True) returns once they exited.   *)
(***************************************************************************)
MaxTasks == 4       \* tasks submitted in a run of the model
MaxWorkers == 2     \* max_workers

Tasks == 1..MaxTasks

InFlight == {i \in Tasks : task[i] \in {"pending", "running"}}

\* close, line 306: executor.shutdown(wait=True) joins the workers, which
\* exit once the queue is drained.
ShutdownReturns_nowait == TRUE
ShutdownReturns == InFlight = {}

PoolIdle ==
    /\ task = [i \in Tasks |-> "new"]
    /\ shutdown = FALSE
    /\ closePc = "open"
    /\ refused = FALSE
    /\ atClose = {}

\* submit_task, line 295: executor.submit queues the work item, or raises
\* when the executor was shut down.
SubmitTask ==
    /\ UNCHANGED otherThanPool
    /\ \E i \in Tasks :
         /\ task[i] = "new"
         /\ \A j \in Tasks : j < i => task[j] # "new"
         /\ IF shutdown
            THEN refused' = TRUE /\ UNCHANGED task
            ELSE refused' = FALSE /\ task' = [task EXCEPT ![i] = "pending"]
    /\ UNCHANGED <<shutdown, closePc, atClose>>

\* A free worker takes the oldest queued work item.
TaskStart ==
    /\ UNCHANGED otherThanPool
    /\ \E i \in Tasks :
         /\ task[i] = "pending"
         /\ \A j \in Tasks : j < i => task[j] # "pending"
         /\ Cardinality({j \in Tasks : task[j] = "running"}) < MaxWorkers
         /\ task' = [task EXCEPT ![i] = "running"]
    /\ UNCHANGED <<shutdown, closePc, refused, atClose>>

\* The callable of a running work item returns or raises.
TaskFinish ==
    /\ UNCHANGED otherThanPool
    /\ \E i \in Tasks, outcome \in {"done", "failed"} :
         /\ task[i] = "running"
         /\ task' = [task EXCEPT ![i] = outcome]
    /\ UNCHANGED <<shutdown, closePc, refused, atClose>>

\* close(), lines 305-306: shutdown begins.
CloseCall ==
    /\ UNCHANGED otherThanPool
    /\ closePc = "open"
    /\ shutdown' = TRUE
    /\ closePc' = "closing"
    /\ atClose' = InFlight
    /\ UNCHANGED <<task, refused>>

\* close() returns.
CloseReturn ==
    /\ UNCHANGED otherThanPool
    /\ closePc = "closing"
    /\ ShutdownReturns
    /\ closePc' = "closed"
    /\ UNCHANGED <<task, shutdown, refused, atClose>>

NextPool ==
    \/ SubmitTask
    \/ TaskStart
    \/ TaskFinish
    \/ CloseCall
    \/ CloseReturn

(***************************************************************************)
(* SpecRes: the relationship resolvers. One action per property access or  *)
(* method call, whole; the listing the server returns for the relationship *)
(* and the fate of each construction task are the inputs.                  *)
(***************************************************************************)
MaxResPages == 2    \* pages of a relationship listing
MaxObj == 4         \* list objects created in a run of the model

ParamKinds == {"none", "empty", "filter"}

\* `if params` / `not params`: None and {} are falsy.
Truthy(p) == p = "filter"

\* A list object is modelled by its identity (oid), with the call that
\* built it (by) and what that call had found (how); NoList stands for
\* None. The length of a list is recorded by the call that builds it.
NoList == [set |-> FALSE, oid |-> 0, by |-> "none", how |-> "none"]
List(o, caller, h) == [set |-> TRUE, oid |-> o, by |-> caller, how |-> h]

\* One page of a listing: the page request fails, or the page is empty, or
\* it carries one payload: one that constructs well (ok), one whose
\* construction raises (bad), or one without an 'id' (noid).
Pages ==
    {[fail |-> TRUE, ok |-> 0, bad |-> 0, noid |-> 0],
     [fail |-> FALSE, ok |-> 0, bad |-> 0, noid |-> 0],
     [fail |-> FALSE, ok |-> 1, bad |-> 0, noid |-> 0],
     [fail |-> FALSE, ok |-> 0, bad |-> 1, noid |-> 0],
     [fail |-> FALSE, ok |-> 0, bad |-> 0, noid |-> 1]}

Listings == UNION {[1..k -> Pages] : k \in 1..MaxResPages}

\* `for item in api_client.paginate(...): items.append(item)`: the payloads
\* gathered page by page until the listing ends or a page request raises
\* out of the generator.
RECURSIVE CollectFrom(_, _, _)
CollectFrom(listing, i, acc) ==
    IF i > Len(listing) THEN acc
    ELSE IF listing[i].fail
         THEN [acc EXCEPT !.raised = TRUE]
         ELSE CollectFrom(listing, i + 1,
                          [acc EXCEPT !.ok = @ + listing[i].ok,
                                      !.bad = @ + listing[i].bad,
                                      !.noid = @ + listing[i].noid])

Collect(listing) ==
    CollectFrom(listing, 1,
                [raised |-> FALSE, ok |-> 0, bad |-> 0, noid |-> 0])

Collected == {Collect(l) : l \in Listings}

\* The except clause around the pagination loop: one error entry, nothing
\* raised.
OnPaginateError_reraise == [raised |-> TRUE, errs |-> 0]
OnPaginateError == [raised |-> FALSE, errs |-> 1]

\* The except clause returns at once: of n payloads gathered before the
\* failure none goes on to construction.
KeptOnError_all(n) == n
KeptOnError(n) == 0

\* The as_completed loop: every future is consumed, a failed one is logged
\* and left out.
Survivors_abort(sub, failed) == IF failed > 0 THEN 0 ELSE sub
Survivors(sub, failed) == sub - failed

\* Organization.get_projects, lines 402-405: a payload without id is
\* skipped with a warning, no task is submitted for it. The other resolvers
\* submit a task for every payload.
SkipsNoId(resolver) == resolver = "Organization.get_projects"

\* A resolver over what the pagination loop gathered: N payloads gathered,
\* `used` of them taken on, M skipped, sub tasks submitted, K tasks failed
\* (a payload without id fails construction where a task is submitted for
\* it), len the length of the resulting list.
Resolve(resolver, c) ==
    LET e == IF c.raised THEN OnPaginateError
             ELSE [raised |-> FALSE, errs |-> 0]
        ok == IF c.raised THEN KeptOnError(c.ok) ELSE c.ok
        bad == IF c.raised THEN KeptOnError(c.bad) ELSE c.bad
        noid == IF c.raised THEN KeptOnError(c.noid) ELSE c.noid
        M == IF SkipsNoId(resolver) THEN noid ELSE 0
        sub == ok + bad + noid - M
        K == bad + noid - M
    IN [raised |-> e.raised, failedPage |-> c.raised,
        N |-> c.ok + c.bad + c.noid, used |-> ok + bad + noid,
        sub |-> sub, K |-> K, M |-> M,
        len |-> Survivors(sub, K), errs |-> e.errs + K, warns |-> M,
        how |-> IF c.raised THEN "error"
                ELSE IF c.ok + c.bad + c.noid = 0 THEN "empty" ELSE "items"]

\* The record of a call: what it was given, what it found in the cache
\* (pre), what it gave back (ret, or raised), the length of the list it
\* built (len), how often it called paginate (pag), and what the fan-out
\* did. strat is the loading strategy where the call reads it.
NoOp == [op |-> "none", mode |-> "none", params |-> "none", strat |-> "none",
         pre |-> NoList, ret |-> NoList, len |-> 0, raised |-> FALSE,
         pag |-> 0, failedPage |-> FALSE, N |-> 0, sub |-> 0, K |-> 0,
         M |-> 0, errs |-> 0, warns |-> 0]

\* What a method did: the record of the call, the cache after it, and the
\* number of list objects it created.
Hit(name, p, cache) ==
    [rec |-> [NoOp EXCEPT !.op = name, !.params = p, !.pre = cache,
                          !.ret = cache],
     cache |-> cache, objs |-> 0]

Done(name, p, cache, r, newCache, ret, objs) ==
    [rec |-> [NoOp EXCEPT !.op = name, !.params = p, !.pre = cache,
                          !.ret = IF r.raised THEN NoList ELSE ret,
                          !.len = IF r.raised THEN 0 ELSE r.len,
                          !.raised = r.raised, !.pag = 1,
                          !.failedPage = r.failedPage, !.N = r.N,
                          !.sub = r.sub, !.K = r.K, !.M = r.M,
                          !.errs = r.errs, !.warns = r.warns],
     cache |-> IF r.raised THEN cache ELSE newCache,
     objs |-> IF r.raised THEN 0 ELSE objs]

\* GroupPydanticModel.fetch_organizations, line 187: the cache test.
OrgsCacheHit_retryAfterError(cache, p) == cache.set /\ cache.how # "error"
OrgsCacheHit(cache, p) == cache.set

\* GroupPydanticModel.fetch_issues, line 249: the cache test.
IssuesCacheHit_ignoreParams(cache, p) == cache.set
IssuesCacheHit(cache, p) == cache.set /\ ~Truthy(p)

\* ProjectPydanticModel.fetch_issues, line 287: the cache test.
ProjectIssuesCacheHit(cache, p) == cache.set

\* What a fetch stores in the cache before it returns `new`
\* (GroupPydanticModel.fetch_organizations, line 232;
\* ProjectPydanticModel.fetch_issues, line 306): the list it returns,
\* whatever the params were.
StoredAfterFetch_unfiltered(cache, new, p) == IF Truthy(p) THEN cache ELSE new
StoredAfterFetch(cache, new, p) == new

\* GroupPydanticModel.fetch_organizations(params), lines 186-234.
FetchOrganizations(caller, cache, p, c) ==
    IF OrgsCacheHit(cache, p) THEN Hit("Group.fetch_organizations", p, cache)
    ELSE LET r == Resolve("Group.fetch_organizations", c)
             new == List(nextObj + 1, caller, r.how)
         IN Done("Group.fetch_organizations", p, cache, r,
                 StoredAfterFetch(cache, new, p), new, 1)

\* GroupPydanticModel.fetch_issues(params), lines 248-296. With nothing to
\* construct the cache gets one new empty list and the caller another.
FetchIssues(caller, cache, p, c) ==
    IF IssuesCacheHit(cache, p) THEN Hit("Group.fetch_issues", p, cache)
    ELSE LET r == Resolve("Group.fetch_issues", c)
         IN IF r.used = 0
            THEN IF ~Truthy(p)
                 THEN Done("Group.fetch_issues", p, cache, r,
                           List(nextObj + 1, caller, r.how),
                           List(nextObj + 2, caller, r.how), 2)
                 ELSE Done("Group.fetch_issues", p, cache, r,
                           cache, List(nextObj + 1, caller, r.how), 1)
            ELSE LET new == List(nextObj + 1, caller, r.how)
                 IN Done("Group.fetch_issues", p, cache, r,
                         IF ~Truthy(p) THEN new ELSE cache, new, 1)

\* OrganizationPydanticModel.fetch_issues(params): the list of issues of
\* the organization for the given filters; it returns a list in every case.
OrgFetchIssues(c) == Resolve("Organization.fetch_issues", c)

\* ProjectPydanticModel.fetch_issues(params), lines 286-308.
ProjectFetchIssuesOf(caller, cache, p, c) ==
    IF ProjectIssuesCacheHit(cache, p) THEN Hit("Project.fetch_issues", p, cache)
    ELSE LET r == OrgFetchIssues(c)
             new == List(nextObj + 1, caller, r.how)
         IN Done("Project.fetch_issues", p, cache, r,
                 StoredAfterFetch(cache, new, p), new, 1)

\* Organization.get_projects(params), lines 368-430: no cache test.
GetProjects(cache, p, c) ==
    LET r == Resolve("Organization.get_projects", c)
    IN IF r.used = 0
       THEN Done("Organization.get_projects", p, cache, r,
                 List(nextObj + 1, "Organization.get_projects", r.how),
                 List(nextObj + 2, "Organization.get_projects", r.how), 2)
       ELSE LET new == List(nextObj + 1, "Organization.get_projects", r.how)
            IN Done("Organization.get_projects", p, cache, r, new, new, 1)

\* What a relationship property returns after its fetch call: the cache,
\* not the value of the call.
PropertyResult_ofCall(fetched) == fetched.rec.ret
PropertyResult(fetched) == fetched.cache

\* Lines 156-157 of group.py (and 169-170; project.py 218-219): under a
\* strategy other than lazy the property stores the empty list it returns.
NonLazyStored_nothing(cache, new) == cache
NonLazyStored(cache, new) == new

\* A relationship property (Group.organizations, lines 153-158;
\* Group.issues, 166-171; Project.issues, 215-220) around its fetch method:
\* `fetched` is what the parameterless fetch does.
Property(name, cache, fetched) ==
    IF cache.set THEN [Hit(name, "none", cache) EXCEPT !.rec.strat = "unread"]
    ELSE IF loading_strategy = "lazy"
         THEN [fetched EXCEPT !.rec.op = name, !.rec.strat = "lazy",
                              !.rec.ret = IF fetched.rec.raised THEN NoList
                                          ELSE PropertyResult(fetched)]
         ELSE LET new == List(nextObj + 1, name, "unfetched")
              IN [rec |-> [NoOp EXCEPT !.op = name, !.pre = cache, !.ret = new,
                                       !.strat = "eager"],
                  cache |-> NonLazyStored(cache, new), objs |-> 1]

\* GroupPydanticModel.get_instance without group_id, lines 110-129, on what
\* _fetch_all_groups_data (lines 72-79) gathered: TRUE when a group results.
AutoDiscovers(c) ==
    /\ c.ok + c.bad + c.noid = 1
    /\ c.ok = 1

\* GroupPydanticModel.get_instance, line 136: the eager pass follows the
\* construction when the strategy is eager.
EagerAtConstruction_never(strategy) == FALSE
EagerAtConstruction(strategy) == strategy = "eager"

ResStart ==
    /\ loading_strategy = "lazy"
    /\ g_pc = "absent"
    /\ g_built = "none"
    /\ g_organizations = NoList
    /\ g_issues = NoList
    /\ p_issues = NoList
    /\ o_projects = NoList
    /\ nextObj = 0
    /\ last = NoOp

\* List objects are left for a call to create.
HasObjects == nextObj + 2 <= MaxObj

\* A call is made when no call is under way.
CanCall == last.op = "none" /\ HasObjects

\* GroupPydanticModel.get_instance(api_client), no group_id, lines 104-140.
\* A page failure of the group listing is logged and swallowed by
\* _fetch_all_groups_data; what was gathered decides.
GetInstanceAuto ==
    /\ UNCHANGED otherThanRes
    /\ g_pc \in {"absent", "ready"}
    /\ CanCall
    /\ \E c \in Collected :
         /\ last' = [NoOp EXCEPT !.op = "Group.get_instance", !.mode = "auto",
                                 !.strat = loading_strategy,
                                 !.raised = ~AutoDiscovers(c),
                                 !.pag = 1,
                                 !.failedPage = c.raised,
                                 !.N = c.ok + c.bad + c.noid,
                                 !.errs = (IF c.raised THEN 1 ELSE 0)
                                          + (IF AutoDiscovers(c) THEN 0 ELSE 1)]
         /\ IF AutoDiscovers(c)
            THEN /\ g_pc' = IF EagerAtConstruction(loading_strategy)
                            THEN "eager_orgs" ELSE "ready"
                 /\ g_built' = loading_strategy
                 /\ g_organizations' = NoList
                 /\ g_issues' = NoList
            ELSE UNCHANGED <<g_pc, g_built, g_organizations, g_issues>>
    /\ UNCHANGED <<loading_strategy, p_issues, o_projects, nextObj>>

\* GroupPydanticModel.get_instance(api_client, group_id), lines 104-140 with
\* _fetch_group_data_by_id, lines 50-62.
GetInstanceById ==
    /\ UNCHANGED otherThanRes
    /\ g_pc \in {"absent", "ready"}
    /\ CanCall
    /\ \E answer \in {"group", "incomplete", "error"} :
         /\ last' = [NoOp EXCEPT !.op = "Group.get_instance", !.mode = "by_id",
                                 !.strat = loading_strategy,
                                 !.raised = (answer # "group"),
                                 !.errs = IF answer = "group" THEN 0 ELSE 1]
         /\ IF answer = "group"
            THEN /\ g_pc' = IF EagerAtConstruction(loading_strategy)
                            THEN "eager_orgs" ELSE "ready"
                 /\ g_built' = loading_strategy
                 /\ g_organizations' = NoList
                 /\ g_issues' = NoList
            ELSE UNCHANGED <<g_pc, g_built, g_organizations, g_issues>>
    /\ UNCHANGED <<loading_strategy, p_issues, o_projects, nextObj>>

\* get_instance under the eager strategy, line 137: fetch_organizations().
EagerOrganizations ==
    /\ UNCHANGED otherThanRes
    /\ g_pc = "eager_orgs"
    /\ HasObjects
    /\ \E c \in Collected :
         LET d == FetchOrganizations("Group.get_instance", g_organizations, "none", c) IN
         /\ last' = [d.rec EXCEPT !.mode = "eager"]
         /\ g_organizations' = d.cache
         /\ nextObj' = nextObj + d.objs
         /\ g_pc' = IF d.rec.raised THEN "ready" ELSE "eager_issues"
    /\ UNCHANGED <<loading_strategy, g_built, g_issues, p_issues, o_projects>>

\* get_instance under the eager strategy, line 138: fetch_issues().
EagerIssues ==
    /\ UNCHANGED otherThanRes
    /\ g_pc = "eager_issues"
    /\ HasObjects
    /\ \E c \in Collected :
         LET d == FetchIssues("Group.get_instance", g_issues, "none", c) IN
         /\ last' = [d.rec EXCEPT !.mode = "eager"]
         /\ g_issues' = d.cache
         /\ nextObj' = nextObj + d.objs
    /\ g_pc' = "ready"
    /\ UNCHANGED <<loading_strategy, g_built, g_organizations, p_issues, o_projects>>

\* The property Group.organizations is read.
GroupOrganizations ==
    /\ UNCHANGED otherThanRes
    /\ g_pc = "ready"
    /\ CanCall
    /\ \E c \in Collected :
         LET d == Property("Group.organizations", g_organizations,
                           FetchOrganizations("Group.organizations", g_organizations,
                                              "none", c)) IN
         /\ last' = d.rec
         /\ g_organizations' = d.cache
         /\ nextObj' = nextObj + d.objs
    /\ UNCHANGED <<loading_strategy, g_pc, g_built, g_issues, p_issues, o_projects>>

\* The property Group.issues is read.
GroupIssues ==
    /\ UNCHANGED otherThanRes
    /\ g_pc = "ready"
    /\ CanCall
    /\ \E c \in Collected :
         LET d == Property("Group.issues", g_issues,
                           FetchIssues("Group.issues", g_issues, "none", c)) IN
         /\ last' = d.rec
         /\ g_issues' = d.cache
         /\ nextObj' = nextObj + d.objs
    /\ UNCHANGED <<loading_strategy, g_pc, g_built, g_organizations, p_issues, o_projects>>

\* Group.fetch_organizations(params) is called.
GroupFetchOrganizations ==
    /\ UNCHANGED otherThanRes
    /\ g_pc = "ready"
    /\ CanCall
    /\ \E p \in ParamKinds, c \in Collected :
         LET d == FetchOrganizations("Group.fetch_organizations", g_organizations, p, c) IN
         /\ last' = d.rec
         /\ g_organizations' = d.cache
         /\ nextObj' = nextObj + d.objs
    /\ UNCHANGED <<loading_strategy, g_pc, g_built, g_issues, p_issues, o_projects>>

\* Group.fetch_issues(params) is called.
GroupFetchIssues ==
    /\ UNCHANGED otherThanRes
    /\ g_pc = "ready"
    /\ CanCall
    /\ \E p \in ParamKinds, c \in Collected :
         LET d == FetchIssues("Group.fetch_issues", g_issues, p, c) IN
         /\ last' = d.rec
         /\ g_issues' = d.cache
         /\ nextObj' = nextObj + d.objs
    /\ UNCHANGED <<loading_strategy, g_pc, g_built, g_organizations, p_issues, o_projects>>

\* The property Project.issues is read.
ProjectIssues ==
    /\ UNCHANGED otherThanRes
    /\ CanCall
    /\ \E c \in Collected :
         LET d == Property("Project.issues", p_issues,
                           ProjectFetchIssuesOf("Project.issues", p_issues,
                                                "none", c)) IN
         /\ last' = d.rec
         /\ p_issues' = d.cache
         /\ nextObj' = nextObj + d.objs
    /\ UNCHANGED <<loading_strategy, g_pc, g_built, g_organizations, g_issues, o_projects>>

\* Project.fetch_issues(params) is called.
ProjectFetchIssues ==
    /\ UNCHANGED otherThanRes
    /\ CanCall
    /\ \E p \in ParamKinds, c \in Collected :
         LET d == ProjectFetchIssuesOf("Project.fetch_issues", p_issues, p, c) IN
         /\ last' = d.rec
         /\ p_issues' = d.cache
         /\ nextObj' = nextObj + d.objs
    /\ UNCHANGED <<loading_strategy, g_pc, g_built, g_organizations, g_issues, o_projects>>

\* Organization.get_projects(params) is called.
OrgGetProjects ==
    /\ UNCHANGED otherThanRes
    /\ CanCall
    /\ \E p \in ParamKinds, c \in Collected :
         LET d == GetProjects(o_projects, p, c) IN
         /\ last' = d.rec
         /\ o_projects' = d.cache
         /\ nextObj' = nextObj + d.objs
    /\ UNCHANGED <<loading_strategy, g_pc, g_built, g_organizations, g_issues, p_issues>>

\* API_CONFIG["loading_strategy"] is assigned (the tests do, between calls).
SetStrategy ==
    /\ UNCHANGED otherThanRes
    /\ g_pc \in {"absent", "ready"}
    /\ last.op = "none"
    /\ loading_strategy' = IF loading_strategy = "lazy" THEN "eager" ELSE "lazy"
    /\ UNCHANGED <<g_pc, g_built, g_organizations, g_issues, p_issues, o_projects,
                   nextObj, last>>

\* The call is over: the caller has its value or its exception.
CallOver ==
    /\ UNCHANGED otherThanRes
    /\ last.op # "none"
    /\ g_pc \in {"absent", "ready"}
    /\ last' = NoOp
    /\ UNCHANGED <<loading_strategy, g_pc, g_built, g_organizations, g_issues,
                   p_issues, o_projects, nextObj>>

NextRes ==
    \/ CallOver
    \/ GetInstanceAuto
    \/ GetInstanceById
    \/ EagerOrganizations
    \/ EagerIssues
    \/ GroupOrganizations
    \/ GroupIssues
    \/ GroupFetchOrganizations
    \/ GroupFetchIssues
    \/ ProjectIssues
    \/ ProjectFetchIssues
    \/ OrgGetProjects
    \/ SetStrategy

(***************************************************************************)
(* SpecBatch: the fan-out of a resolver, future by future. The resolver    *)
(* submits one task per payload, then iterates as_completed over the       *)
(* futures; the workers finish the tasks in any order, also while the      *)
(* resolver is still submitting.                                           *)
(***************************************************************************)
MaxBatch == 3    \* payloads of one fan-out

Futures == 1..MaxBatch

RECURSIVE SeqToSet(_)
SeqToSet(q) == IF q = <<>> THEN {} ELSE {Head(q)} \cup SeqToSet(Tail(q))

\* The order in which as_completed may hand on the futures that were
\* already complete when it was called: it keeps them in a set.
EarlyChoice(early, finished) == early

\* The collection loop on a yielded future: a result that is truthy is
\* appended; an exception is logged and the loop goes on.
LoopGoesOnAfter_stops(outcome) == outcome # "raised"
LoopGoesOnAfter(outcome) == TRUE

BatchIdle ==
    /\ bPc = "idle"
    /\ bN = 0
    /\ bFuture = [f \in Futures |-> "unsubmitted"]
    /\ bFinished = <<>>
    /\ bEarly = {}
    /\ bLate = <<>>
    /\ bYielded = <<>>
    /\ bResults = <<>>
    /\ bErrors = 0

\* The resolver has gathered bN > 0 payloads and enters the submit loop.
BatchBegin ==
    /\ UNCHANGED otherThanBatch
    /\ bPc = "idle"
    /\ \E n \in 1..MaxBatch : bN' = n
    /\ bPc' = "submitting"
    /\ UNCHANGED <<bFuture, bFinished, bEarly, bLate, bYielded, bResults, bErrors>>

\* submit_task for the next payload.
BatchSubmit ==
    /\ UNCHANGED otherThanBatch
    /\ bPc = "submitting"
    /\ \E f \in 1..bN :
         /\ bFuture[f] = "unsubmitted"
         /\ \A g \in 1..(f - 1) : bFuture[g] # "unsubmitted"
         /\ bFuture' = [bFuture EXCEPT ![f] = "running"]
    /\ UNCHANGED <<bPc, bN, bFinished, bEarly, bLate, bYielded, bResults, bErrors>>

\* A worker finishes a task: the factory returned an entity, returned a
\* falsy value, or raised. A waiter installed by as_completed is told.
BatchTaskDone ==
    /\ UNCHANGED otherThanBatch
    /\ \E f \in 1..bN, outcome \in {"returned", "falsy", "raised"} :
         /\ bFuture[f] = "running"
         /\ bFuture' = [bFuture EXCEPT ![f] = outcome]
         /\ bFinished' = Append(bFinished, f)
         /\ bLate' = IF bPc = "collecting" THEN Append(bLate, f) ELSE bLate
    /\ UNCHANGED <<bPc, bN, bEarly, bYielded, bResults, bErrors>>

\* All tasks are submitted; as_completed is called and notes the futures
\* that are complete already.
BatchCollect ==
    /\ UNCHANGED otherThanBatch
    /\ bPc = "submitting"
    /\ \A f \in 1..bN : bFuture[f] # "unsubmitted"
    /\ bEarly' = {f \in 1..bN : bFuture[f] # "running"}
    /\ bPc' = "collecting"
    /\ UNCHANGED <<bN, bFuture, bFinished, bLate, bYielded, bResults, bErrors>>

\* One turn of the collection loop on the future f that as_completed yields.
Consume(f) ==
    /\ bYielded' = Append(bYielded, f)
    /\ bResults' = IF bFuture[f] = "returned" THEN Append(bResults, f)
                   ELSE bResults
    /\ bErrors' = IF bFuture[f] = "raised" THEN bErrors + 1 ELSE bErrors
    /\ bPc' = IF LoopGoesOnAfter(bFuture[f]) THEN bPc ELSE "returned"

\* as_completed yields a future that was complete when it was called.
BatchYieldEarly ==
    /\ UNCHANGED otherThanBatch
    /\ bPc = "collecting"
    /\ \E f \in EarlyChoice(bEarly, bFinished) :
         /\ bEarly' = bEarly \ {f}
         /\ Consume(f)
    /\ UNCHANGED <<bN, bFuture, bFinished, bLate>>

\* as_completed yields the oldest future completed since it was called.
BatchYieldLate ==
    /\ UNCHANGED otherThanBatch
    /\ bPc = "collecting"
    /\ bEarly = {}
    /\ bLate # <<>>
    /\ bLate' = Tail(bLate)
    /\ Consume(Head(bLate))
    /\ UNCHANGED <<bN, bFuture, bFinished, bEarly>>

\* as_completed is exhausted: the resolver stores the list and returns.
BatchReturn ==
    /\ UNCHANGED otherThanBatch
    /\ bPc = "collecting"
    /\ Len(bYielded) = bN
    /\ bPc' = "returned"
    /\ UNCHANGED <<bN, bFuture, bFinished, bEarly, bLate, bYielded, bResults, bErrors>>

NextBatch ==
    \/ BatchBegin
    \/ BatchSubmit
    \/ BatchTaskDone
    \/ BatchCollect
    \/ BatchYieldEarly
    \/ BatchYieldLate
    \/ BatchReturn

(***************************************************************************)
(* SpecFac: the project factory ProjectPydanticModel.from_api_response,    *)
(* with the hydration of a summary payload and the eager pass, and         *)
(* ProjectPydanticModel.fetch_issues handing the project to its issues.    *)
(***************************************************************************)
Names == {"n1", "n2"}

\* The 'attributes' object of a payload: absent, or with a name (or without
\* one) and possibly with keys that ProjectAttributes does not declare.
NoAttrs == [present |-> FALSE, name |-> "none", extra |-> FALSE]
AttrStates ==
    {NoAttrs} \cup [present : {TRUE}, name : Names \cup {"none"}, extra : BOOLEAN]

\* A project payload: its id (or none), its attributes, whether it has a
\* 'relationships' object.
Payloads == [id : {"none", "p1"}, attrs : AttrStates, rels : BOOLEAN]

\* What the single-item endpoint does: the GET raises, or the JSON has no
\* 'data', or it has a 'data' object for the id asked.
NoReply == [kind |-> "none", data |-> [id |-> "none", attrs |-> NoAttrs, rels |-> FALSE]]
Replies ==
    {[NoReply EXCEPT !.kind = "raise"], [NoReply EXCEPT !.kind = "nodata"]}
    \cup {[kind |-> "data", data |-> d] : d \in {q \in Payloads : q.id = "p1"}}

\* Line 127: the payload is a summary and full details are asked for.
NeedsDetails(flag, pd) == flag /\ (~pd.attrs.present \/ ~pd.rels)

\* Lines 137-142: the payload after the GET; the summary is kept when the
\* GET raised (logged) or the JSON had no 'data'.
Hydrate_keep(pd, reply) == pd
Hydrate(pd, reply) == IF reply.kind = "data" THEN reply.data ELSE pd

\* cls(**project_data): id and attributes (with name) are required fields.
Valid_lenient(pd) == pd.id # "none"
Valid(pd) == pd.id # "none" /\ pd.attrs.present /\ pd.attrs.name # "none"

\* ProjectAttributes(**attributes): the declared fields are kept, other
\* keys are not fields of the model.
ParseAttributes(a) == [name |-> a.name]

\* Line 150: the factory reads the loading strategy itself.
EagerPass(strategy) == strategy = "eager"

NoEntity == [made |-> FALSE, id |-> "none", attrs |-> [name |-> "none"],
             rels |-> FALSE, client |-> FALSE, org |-> "none", group |-> "none",
             issues |-> FALSE]
NoIssue == [made |-> FALSE, client |-> FALSE, org |-> "none",
            project |-> "none", group |-> "none",
            builtProject |-> "none", builtGroup |-> "none"]
NoFac == [op |-> "none", caller |-> "none", flag |-> FALSE,
          payload |-> NoReply.data, got |-> "none", replied |-> NoReply.data,
          used |-> NoReply.data,
          gets |-> 0, raised |-> FALSE, errs |-> 0, strat |-> "none",
          eagerIssues |-> FALSE, eagerIntegrations |-> FALSE]

\* An issue as OrganizationPydanticModel.fetch_issues hands it over: built
\* with the client and the organization, no project, and the group of the
\* organization if it has one.
BuiltIssue(og) ==
    [made |-> TRUE, client |-> TRUE, org |-> "o", project |-> "none",
     group |-> og, builtProject |-> "none", builtGroup |-> og]

\* ProjectPydanticModel.fetch_issues, lines 302-304: every issue obtained
\* gets the project and the project's group.
Reparent(i, e) == [i EXCEPT !.project = e.id, !.group = e.group]

FacStart ==
    /\ fac = NoFac
    /\ proj = NoEntity
    /\ iss = NoIssue

\* ProjectPydanticModel.from_api_response(project_data, api_client,
\* organization, group, fetch_full_details_if_summary), lines 125-154,
\* called by a user or by a parent that resolves its projects. A run of
\* the model follows one construction.
ProjectFromApiResponse ==
    /\ UNCHANGED otherThanFac
    /\ fac.op = "none"
    /\ \E caller \in {"user", "parent_pass"}, pd \in Payloads, flag \in BOOLEAN,
          grp \in {"none", "g"}, reply \in Replies, found \in BOOLEAN,
          og \in {"none", "g"} :
         LET need == NeedsDetails(flag, pd)
             noId == need /\ pd.id = "none"
             gets == IF need /\ ~noId THEN 1 ELSE 0
             data == IF gets = 1 THEN Hydrate(pd, reply) ELSE pd
             ok == ~noId /\ Valid(data)
             eager == ok /\ EagerPass(loading_strategy)
             entity == [made |-> TRUE, id |-> data.id,
                        attrs |-> ParseAttributes(data.attrs),
                        rels |-> data.rels, client |-> TRUE, org |-> "o",
                        group |-> grp, issues |-> eager]
         IN /\ fac' = [NoFac EXCEPT !.op = "Project.from_api_response",
                                    !.caller = caller, !.flag = flag,
                                    !.payload = pd,
                                    !.got = IF gets = 1 THEN reply.kind ELSE "none",
                                    !.replied = IF gets = 1 THEN reply.data
                                                ELSE NoReply.data,
                                    !.used = data, !.gets = gets,
                                    !.raised = ~ok,
                                    !.errs = IF gets = 1 /\ reply.kind = "raise"
                                             THEN 1 ELSE 0,
                                    !.strat = IF ok THEN loading_strategy ELSE "none",
                                    !.eagerIssues = eager,
                                    !.eagerIntegrations = eager]
            /\ proj' = IF ok THEN entity ELSE NoEntity
            /\ iss' = IF eager /\ found THEN Reparent(BuiltIssue(og), entity)
                      ELSE NoIssue

\* ProjectPydanticModel.fetch_issues() on the project built last, not yet
\* cached, lines 286-308.
FacProjectFetchIssues ==
    /\ UNCHANGED otherThanFac
    /\ proj.made
    /\ ~proj.issues
    /\ \E found \in BOOLEAN, og \in {"none", "g"} :
         iss' = IF found THEN Reparent(BuiltIssue(og), proj) ELSE NoIssue
    /\ proj' = [proj EXCEPT !.issues = TRUE]
    /\ fac' = [fac EXCEPT !.op = "Project.fetch_issues"]

NextFac ==
    \/ ProjectFromApiResponse
    \/ FacProjectFetchIssues
    \/ SetStrategy

(***************************************************************************)
(* SpecIssue: the class Issue of issue.py, its constructor's context and   *)
(* its get_project.                                                        *)
(***************************************************************************)
MaxResolves == 2

\* The project ids a scan_item relationship may name.
ProjectIds == {"p1", "p2"}

\* No Issue object yet. org and group tell whether self.org and self.group
\* are set, project is the id of self.project and projectOrg the
\* organization that project references ("self.org": the very object the
\* issue holds), org_id and project_id are the ids parsed from the
\* relationships ("unset": the attribute was never assigned), groupHasOrg
\* tells whether the organization list cached by the group holds the
\* organization org_id names.
NoIssueObj ==
    [made |-> FALSE, ctx |-> "none", org |-> FALSE, group |-> FALSE,
     project |-> "none", projectOrg |-> "none", org_id |-> "unset",
     project_id |-> "unset", groupHasOrg |-> FALSE]

\* pre is self.project when the call started, answer what the organization
\* did when it was called, gets the requests the call caused.
NoICall ==
    [op |-> "none", n |-> 0, pre |-> "none", answer |-> "none", ret |-> "none",
     raised |-> FALSE, orgCalls |-> 0, gets |-> 0, warns |-> 0, errs |-> 0,
     debugs |-> 0]

\* One line logged at a level, as counts per level.
Logged(level) ==
    [warns |-> IF level = "warning" THEN 1 ELSE 0,
     errs |-> IF level = "error" THEN 1 ELSE 0,
     debugs |-> IF level = "debug" THEN 1 ELSE 0]

\* Issue.get_project, line 185: hasattr(self, 'project_id') and
\* self.project_id.
HasProjectId(i) == i.project_id \in ProjectIds

\* Issue.get_project, line 185: the organization the resolution goes
\* through is the attached one, self.org.
ResolvesThroughOrg(i) == i.org

\* Issue.get_project, lines 198-199: the level of the line logged when
\* there is a project_id and no organization context.
NoOrgLogLevel_warning == "warning"
NoOrgLogLevel == "debug"

\* Organization.get_project(project_id), lines 445-468: one GET to
\* /rest/orgs/{orgId}/projects/{projectId} inside the try, and on a reply
\* with 'data' a Project of the id the reply carries, which is the id asked
\* for, built with organization=self. The headers are built outside the
\* try: "raise" is the call raising before any request.
OrgGetProject(project_id, answer) ==
    [gets |-> IF answer = "raise" THEN 0 ELSE 1,
     id |-> IF answer = "project" THEN project_id ELSE "none",
     org |-> IF answer = "project" THEN "self.org" ELSE "none"]

\* Issue.get_project, lines 189-191: a project obtained is stored in
\* self.project before it is returned.
StoreResolved_not(old, new) == old
StoreResolved(old, new) == new

\* Issue.get_project, lines 182-201, on issue i: what it returns, the
\* project it stores, what it logs. answer is what Organization.get_project
\* does when called: it returns a "project", or None after its own warning
\* ("nodata") or its own error line ("caught"), or it raises ("raise").
GetProject(i, answer) ==
    IF i.project # "none"
    THEN [ret |-> i.project, project |-> i.project,
          projectOrg |-> i.projectOrg, orgCalls |-> 0, gets |-> 0,
          warns |-> 0, errs |-> 0, debugs |-> 0]
    ELSE IF HasProjectId(i) /\ ResolvesThroughOrg(i)
    THEN LET got == OrgGetProject(i.project_id, answer)
         IN IF answer = "project"
            THEN [ret |-> got.id,
                  project |-> StoreResolved(i.project, got.id),
                  projectOrg |-> StoreResolved(i.projectOrg, got.org),
                  orgCalls |-> 1, gets |-> got.gets,
                  warns |-> 0, errs |-> 0, debugs |-> 1]
            ELSE IF answer = "raise"
            THEN [ret |-> "none", project |-> "none", projectOrg |-> "none",
                  orgCalls |-> 1, gets |-> got.gets,
                  warns |-> 0, errs |-> 1, debugs |-> 1]
            ELSE [ret |-> "none", project |-> "none", projectOrg |-> "none",
                  orgCalls |-> 1, gets |-> got.gets,
                  warns |-> 1, errs |-> 0, debugs |-> 1]
    ELSE IF ~HasProjectId(i)
    THEN [ret |-> "none", project |-> "none", projectOrg |-> "none",
          orgCalls |-> 0, gets |-> 0] @@ Logged("debug")
    ELSE [ret |-> "none", project |-> "none", projectOrg |-> "none",
          orgCalls |-> 0, gets |-> 0] @@ Logged(NoOrgLogLevel)

IssueStart ==
    /\ issue = NoIssueObj
    /\ icall = NoICall

\* Issue(issue_data, group, org, project), lines 41-169. The context given
\* is a project, an organization, a group or nothing; projOrg and orgGroup
\* tell whether the project has an organization and the organization a
\* group.
IssueInit ==
    /\ UNCHANGED otherThanIssue
    /\ ~issue.made
    /\ icall.op = "none"
    /\ \E ctx \in {"none", "group", "org", "project"}, projOrg \in BOOLEAN,
          orgGroup \in BOOLEAN, relOrg \in {"unset", "o1"},
          relProj \in {"unset", "none"} \cup ProjectIds, cached \in BOOLEAN :
         LET hasOrg == ctx = "org" \/ (ctx = "project" /\ projOrg)
             hasGroup == ctx = "group" \/ (hasOrg /\ orgGroup)
         IN IF ctx = "none"
            THEN /\ issue' = issue
                 /\ icall' = [NoICall EXCEPT !.op = "Issue.__init__",
                                             !.raised = TRUE, !.warns = 1]
            ELSE /\ issue' = [made |-> TRUE, ctx |-> ctx, org |-> hasOrg,
                              group |-> hasGroup,
                              project |-> IF ctx = "project" THEN "p1" ELSE "none",
                              projectOrg |-> IF ctx = "project" /\ projOrg
                                             THEN "self.org" ELSE "none",
                              org_id |-> relOrg, project_id |-> relProj,
                              groupHasOrg |-> hasGroup /\ cached]
                 /\ icall' = [NoICall EXCEPT !.op = "Issue.__init__"]

\* issue.get_project(), lines 171-201.
IssueGetProject ==
    /\ UNCHANGED otherThanIssue
    /\ issue.made
    /\ icall.n < MaxResolves
    /\ \E answer \in {"project", "nodata", "caught", "raise"} :
         LET r == GetProject(issue, answer)
         IN /\ issue' = [issue EXCEPT !.project = r.project,
                                      !.projectOrg = r.projectOrg]
            /\ icall' = [op |-> "Issue.get_project", n |-> icall.n + 1,
                         pre |-> issue.project,
                         answer |-> IF r.orgCalls = 1 THEN answer ELSE "none",
                         ret |-> r.ret, raised |-> FALSE,
                         orgCalls |-> r.orgCalls, gets |-> r.gets,
                         warns |-> r.warns, errs |-> r.errs,
                         debugs |-> r.debugs]

NextIssue ==
    \/ IssueInit
    \/ IssueGetProject

(***************************************************************************)
(* SpecCool: the rate-limit state of one APIClient followed through the    *)
(* responses it handles and the waits of _rate_limit, one step at a time,  *)
(* with Retry-After values on both sides of the default delay.             *)
(***************************************************************************)
MaxHeader == 6      \* largest numeric Retry-After
MaxClock == 3       \* the clock stops there

\* The Retry-After headers of SpecCool: absent, not all digits, or digits.
CoolHeaders ==
    {[kind |-> "absent", val |-> 0], [kind |-> "text", val |-> 0]}
        \cup {[kind |-> "digits", val |-> v] : v \in 0..MaxHeader}

\* The last step of SpecCool: for a response handled, the delay before it,
\* its header, the time it was received and the delay stored; for a wait,
\* the delay waited for, the time stored by the response handled last (at),
\* the time the wait started and the time it ends.
NoCoolEv ==
    [kind |-> "none", before |-> 0, hdr |-> [kind |-> "absent", val |-> 0],
     at |-> 0, stored |-> 0, start |-> 0, wake |-> 0]

CoolStart ==
    /\ cdClock = 0
    /\ cdDelay = 0
    /\ cdLast = 0
    /\ cdEv = NoCoolEv

\* _handle_response on a 429, lines 140 and 146-159.
CoolHandle429 ==
    /\ UNCHANGED otherThanCool
    /\ \E h \in CoolHeaders :
         LET d == DelayOn429(cdDelay, h)
         IN /\ cdDelay' = d
            /\ cdEv' = [NoCoolEv EXCEPT !.kind = "429", !.before = cdDelay,
                                        !.hdr = h, !.at = cdClock, !.stored = d]
    /\ cdLast' = cdClock
    /\ UNCHANGED cdClock

\* _handle_response on any other response, lines 140-144 and 146-148:
\* only last_request_time is written.
CoolHandleOther ==
    /\ UNCHANGED otherThanCool
    /\ cdLast # cdClock
    /\ cdLast' = cdClock
    /\ cdEv' = [NoCoolEv EXCEPT !.kind = "other", !.before = cdDelay,
                                !.at = cdClock, !.stored = cdDelay]
    /\ UNCHANGED <<cdClock, cdDelay>>

\* _rate_limit with a delay stored, lines 113-120: the wait is computed,
\* slept through, and the delay reset.
CoolWait ==
    /\ UNCHANGED otherThanCool
    /\ cdDelay > 0
    /\ LET wait_time == cdDelay - (cdClock - cdLast)
           wakeAt == IF wait_time > 0 THEN cdClock + wait_time ELSE cdClock
       IN /\ cdEv' = [NoCoolEv EXCEPT !.kind = "wait", !.before = cdDelay,
                                      !.at = cdLast, !.stored = cdDelay,
                                      !.start = cdClock, !.wake = wakeAt]
          /\ cdClock' = IF wakeAt > MaxClock THEN MaxClock ELSE wakeAt
    /\ cdDelay' = DelayAfterWait(cdDelay)
    /\ UNCHANGED cdLast

\* The clock advances.
CoolTick ==
    /\ UNCHANGED otherThanCool
    /\ cdClock < MaxClock
    /\ cdClock' = cdClock + 1
    /\ UNCHANGED <<cdDelay, cdLast, cdEv>>

NextCool ==
    \/ CoolHandle429
    \/ CoolHandleOther
    \/ CoolWait
    \/ CoolTick

(***************************************************************************)
(* SpecRetry: one call of get/post/put/delete seen from the connection     *)
(* level: the HTTPAdapter of the session with the Retry of __init__        *)
(* (lines 73-95) around the single session.<method> call of the method.    *)
(***************************************************************************)
MaxRetries == 2     \* Retry(total=...), max_retries

Methods == {"GET", "POST", "PUT", "DELETE"}

\* API_CONFIG["status_forcelist"], config.py line 12.
StatusForcelist == {429, 500, 502, 503, 504}

\* What an attempt meets: a status of the server, a connection that could
\* not be made (nothing sent), or a response that never came (sent).
NoAttempt == [kind |-> "none", status |-> 0]
AttemptOutcomes ==
    {[kind |-> "status", status |-> st] : st \in {200, 404, 429, 500}}
        \cup {[kind |-> k, status |-> 0] : k \in {"connect_error", "read_error"}}

\* Retry(allowed_methods=None), line 79: every method is retried.
MethodRetryable(method) == TRUE

\* Retry.is_retry / Retry.increment for the configuration of lines 73-80:
\* whether the attempt that met `outcome` is followed by another one.
RetriesAfter(method, left, outcome) ==
    /\ left > 0
    /\ \/ outcome.kind = "connect_error"
       \/ outcome.kind = "read_error" /\ MethodRetryable(method)
       \/ outcome.status \in StatusForcelist /\ MethodRetryable(method)

RetryIdle ==
    /\ rtPc = "idle"
    /\ rtMethod = "none"
    /\ rtLeft = 0
    /\ rtSends = 0
    /\ rtLast = NoAttempt
    /\ rtApiSends = 0

\* get (line 190), post (218), put (246), delete (272): after _rate_limit
\* the method calls session.<method> once.
RetryCall ==
    /\ UNCHANGED otherThanRetry
    /\ rtPc = "idle"
    /\ \E method \in Methods, total \in 0..MaxRetries :
         /\ rtMethod' = method
         /\ rtLeft' = total
    /\ rtPc' = "wire"
    /\ rtSends' = 0
    /\ rtLast' = NoAttempt
    /\ rtApiSends' = 1

\* One attempt of the adapter: the request goes out (unless the connection
\* fails), and is followed by another attempt, by an exception out of
\* session.<method> (no response and no retry left), or by the response
\* being handed to _handle_response, which returns it or raises.
RetryAttempt ==
    /\ UNCHANGED otherThanRetry
    /\ rtPc = "wire"
    /\ \E outcome \in AttemptOutcomes :
         LET again == RetriesAfter(rtMethod, rtLeft, outcome)
             isStatus == outcome.kind = "status"
         IN /\ rtSends' = IF outcome.kind = "connect_error" THEN rtSends
                          ELSE rtSends + 1
            /\ rtLast' = outcome
            /\ rtLeft' = IF again THEN rtLeft - 1 ELSE rtLeft
            /\ rtPc' = IF again THEN "wire"
                       ELSE IF ~isStatus THEN "raised"
                       ELSE IF RaiseForStatus(outcome.status) THEN "raised"
                       ELSE "returned"
    /\ UNCHANGED <<rtMethod, rtApiSends>>

NextRetry ==
    \/ RetryCall
    \/ RetryAttempt

(***************************************************************************)
(* SpecNest: the one ThreadPoolExecutor of the client (api_client.py line  *)
(* 86) used on two levels. A construction task (from_api_response) runs in *)
(* a worker; under the eager strategy it calls fetch_issues (project.py    *)
(* lines 150-151), which collects payloads, hands one sub-task per payload *)
(* to submit_task and waits for them in as_completed (the fan-out of       *)
(* organization.py lines 206-217), all inside the worker.                  *)
(***************************************************************************)
MaxKids == 2        \* payloads one nested resolution may collect

\* One construction task more than the pool has workers.
Parents == 1..(MaxWorkers + 1)

NoKids == [queued |-> 0, running |-> 0, done |-> 0]

\* Sub-tasks of the construction tasks 1..n that are inside a worker.
RECURSIVE KidsRunning(_)
KidsRunning(n) == IF n = 0 THEN 0 ELSE nKids[n].running + KidsRunning(n - 1)

\* Worker threads that are inside a callable.
Busy ==
    Cardinality({p \in Parents : nParent[p] \in {"running", "waiting"}})
        + KidsRunning(MaxWorkers + 1)

NestIdle ==
    /\ nQueue = <<>>
    /\ nParent = [p \in Parents |-> "new"]
    /\ nKids = [p \in Parents |-> NoKids]

\* The resolver on the calling thread hands the next construction task to
\* submit_task.
NestSubmitParent ==
    /\ UNCHANGED otherThanNest
    /\ \E p \in Parents :
         /\ nParent[p] = "new"
         /\ \A q \in Parents : q < p => nParent[q] # "new"
         /\ nParent' = [nParent EXCEPT ![p] = "queued"]
         /\ nQueue' = Append(nQueue, [kind |-> "parent", of |-> p])
    /\ UNCHANGED nKids

\* A worker thread that is free takes the oldest work item of the queue.
NestTake ==
    /\ UNCHANGED otherThanNest
    /\ nQueue # <<>>
    /\ Busy < MaxWorkers
    /\ LET item == Head(nQueue) IN
         IF item.kind = "parent"
         THEN /\ nParent' = [nParent EXCEPT ![item.of] = "running"]
              /\ UNCHANGED nKids
         ELSE /\ nKids' = [nKids EXCEPT ![item.of].queued = @ - 1,
                                         ![item.of].running = @ + 1]
              /\ UNCHANGED nParent
    /\ nQueue' = Tail(nQueue)

\* The payloads of the nested resolution in submission order.
RECURSIVE KidItems(_, _)
KidItems(p, k) ==
    IF k = 0 THEN <<>> ELSE Append(KidItems(p, k - 1), [kind |-> "kid", of |-> p])

\* Inside the worker the construction task resolves its relationship: no
\* payload, and it returns; otherwise one submit_task per payload, then
\* as_completed blocks the worker until every sub-task is complete.
NestFanOut(p) ==
    /\ UNCHANGED otherThanNest
    /\ nParent[p] = "running"
    /\ \E k \in 0..MaxKids :
         IF k = 0
         THEN /\ nParent' = [nParent EXCEPT ![p] = "done"]
              /\ UNCHANGED <<nQueue, nKids>>
         ELSE /\ nParent' = [nParent EXCEPT ![p] = "waiting"]
              /\ nQueue' = nQueue \o KidItems(p, k)
              /\ nKids' = [nKids EXCEPT ![p].queued = k]

\* A sub-task returns or raises in its worker.
NestKidDone(p) ==
    /\ UNCHANGED otherThanNest
    /\ nKids[p].running > 0
    /\ nKids' = [nKids EXCEPT ![p].running = @ - 1, ![p].done = @ + 1]
    /\ UNCHANGED <<nQueue, nParent>>

\* as_completed has yielded every future: the construction task returns.
NestParentReturn(p) ==
    /\ UNCHANGED otherThanNest
    /\ nParent[p] = "waiting"
    /\ nKids[p].queued = 0 /\ nKids[p].running = 0
    /\ nParent' = [nParent EXCEPT ![p] = "done"]
    /\ UNCHANGED <<nQueue, nKids>>

NextNest ==
    \/ NestSubmitParent
    \/ NestTake
    \/ \E p \in Parents : NestFanOut(p)
    \/ \E p \in Parents : NestKidDone(p)
    \/ \E p \in Parents : NestParentReturn(p)

(***************************************************************************)
(* SpecRace: the property Group.organizations (group.py lines 147-158) and *)
(* fetch_organizations (lines 186-234) run by several threads on one       *)
(* group, statement by statement; the strategy is "lazy". The list a       *)
(* thread builds carries the thread's number as its identity.              *)
(***************************************************************************)
MaxRacers == 2      \* threads that read the property

Racers == 1..MaxRacers

RaceIdle ==
    /\ rcCache = 0
    /\ rcPc = [t \in Racers |-> "idle"]
    /\ rcPage = [t \in Racers |-> "none"]
    /\ rcRet = [t \in Racers |-> 0]
    /\ rcFetches = 0

\* Line 153: if self._organizations is None, then line 155 calls
\* fetch_organizations; otherwise line 158 is next.
RaceAccess(t) ==
    /\ UNCHANGED otherThanRace
    /\ rcPc[t] = "idle"
    /\ rcPc' = [rcPc EXCEPT ![t] = IF rcCache = 0 THEN "fetch" ELSE "ret"]
    /\ UNCHANGED <<rcCache, rcPage, rcRet, rcFetches>>

\* Lines 187-188: fetch_organizations returns the cache when it is set.
RaceFetchCheck(t) ==
    /\ UNCHANGED otherThanRace
    /\ rcPc[t] = "fetch"
    /\ rcPc' = [rcPc EXCEPT ![t] = IF rcCache = 0 THEN "paginate" ELSE "ret"]
    /\ UNCHANGED <<rcCache, rcPage, rcRet, rcFetches>>

\* Lines 197-201: the endpoint is paginated; it gives items, nothing, or
\* raises.
RacePaginate(t) ==
    /\ UNCHANGED otherThanRace
    /\ rcPc[t] = "paginate"
    /\ rcFetches' = rcFetches + 1
    /\ \E got \in {"items", "empty", "error"} : rcPage' = [rcPage EXCEPT ![t] = got]
    /\ rcPc' = [rcPc EXCEPT ![t] = "store"]
    /\ UNCHANGED <<rcCache, rcRet>>

\* Lines 204, 208 and 232: the list this thread made is stored (after the
\* fan-out of lines 211-230 when there were items).
RaceStore(t) ==
    /\ UNCHANGED otherThanRace
    /\ rcPc[t] = "store"
    /\ rcCache' = t
    /\ rcPc' = [rcPc EXCEPT ![t] = "ret"]
    /\ UNCHANGED <<rcPage, rcRet, rcFetches>>

\* Line 158: the property returns what self._organizations holds now.
RaceReturn(t) ==
    /\ UNCHANGED otherThanRace
    /\ rcPc[t] = "ret"
    /\ rcRet' = [rcRet EXCEPT ![t] = rcCache]
    /\ rcPc' = [rcPc EXCEPT ![t] = "done"]
    /\ UNCHANGED <<rcCache, rcPage, rcFetches>>

NextRace ==
    \/ \E t \in Racers : RaceAccess(t)
    \/ \E t \in Racers : RaceFetchCheck(t)
    \/ \E t \in Racers : RacePaginate(t)
    \/ \E t \in Racers : RaceStore(t)
    \/ \E t \in Racers : RaceReturn(t)

(***************************************************************************)
(* SpecShut: Group.fetch_organizations (group.py lines 186-234) or a       *)
(* Group.fetch_issues without params (lines 248-296) on a client whose     *)
(* close() (api_client.py lines 305-306) is called by another thread at    *)
(* any moment. ThreadPoolExecutor.submit raises RuntimeError once          *)
(* shutdown() was called; tasks accepted before still run.                 *)
(***************************************************************************)
ShutIdle ==
    /\ shPc = "idle"
    /\ shN = 0
    /\ shSubmitted = 0
    /\ shDone = 0
    /\ shShutdown = FALSE
    /\ shOp = "none"
    /\ shAtClose = 0
    /\ shRefused = FALSE
    /\ shCache = "unset"

\* Lines 211-221 and 274-282: submit_task is called outside any try, so
\* what it raises leaves the resolver at once.
AfterRefusedSubmit_goOn(at) == "collecting"
AfterRefusedSubmit(at) == "raised"

\* Lines 186-209 (248-270): the cache is unset, the listing is paginated (paginate
\* does not use the executor); with nothing gathered an empty list is
\* stored and returned.
ShutFetch ==
    /\ UNCHANGED otherThanShut
    /\ shPc = "idle"
    /\ \E n \in 0..MaxBatch,
          op \in {"Group.fetch_organizations", "Group.fetch_issues"} :
         /\ shN' = n
         /\ shOp' = op
         /\ IF n = 0
            THEN shPc' = "returned" /\ shCache' = "empty"
            ELSE shPc' = "submitting" /\ UNCHANGED shCache
    /\ UNCHANGED <<shSubmitted, shDone, shShutdown, shAtClose, shRefused>>

\* Lines 213-221 (275-282): submit_task for the next payload.
ShutSubmit ==
    /\ UNCHANGED otherThanShut
    /\ shPc = "submitting"
    /\ shSubmitted < shN
    /\ IF shShutdown
       THEN /\ shRefused' = TRUE
            /\ shPc' = AfterRefusedSubmit(shPc)
            /\ UNCHANGED shSubmitted
       ELSE /\ shSubmitted' = shSubmitted + 1
            /\ UNCHANGED <<shPc, shRefused>>
    /\ UNCHANGED <<shN, shDone, shShutdown, shOp, shAtClose, shCache>>

\* Line 224 (285): every payload has its future; as_completed is entered.
ShutCollect ==
    /\ UNCHANGED otherThanShut
    /\ shPc = "submitting"
    /\ shSubmitted = shN
    /\ shPc' = "collecting"
    /\ UNCHANGED <<shN, shSubmitted, shDone, shShutdown, shOp, shAtClose, shRefused,
                   shCache>>

\* A worker completes a task that was accepted.
ShutTaskDone ==
    /\ UNCHANGED otherThanShut
    /\ shDone < shSubmitted
    /\ shDone' = shDone + 1
    /\ UNCHANGED <<shPc, shN, shSubmitted, shShutdown, shOp, shAtClose, shRefused,
                   shCache>>

\* Lines 224-234 (285-296): as_completed has yielded every future it was given; the
\* list is stored and returned.
ShutReturn ==
    /\ UNCHANGED otherThanShut
    /\ shPc = "collecting"
    /\ shDone = shSubmitted
    /\ shCache' = IF shSubmitted = shN THEN "all" ELSE "partial"
    /\ shPc' = "returned"
    /\ UNCHANGED <<shN, shSubmitted, shDone, shShutdown, shOp, shAtClose, shRefused>>

\* close() is called on the client, lines 305-306.
ShutClose ==
    /\ UNCHANGED otherThanShut
    /\ ~shShutdown
    /\ shShutdown' = TRUE
    /\ shAtClose' = shSubmitted
    /\ UNCHANGED <<shPc, shN, shSubmitted, shDone, shOp, shRefused, shCache>>

NextShut ==
    \/ ShutFetch
    \/ ShutSubmit
    \/ ShutCollect
    \/ ShutTaskDone
    \/ ShutReturn
    \/ ShutClose

(***************************************************************************)
(* SpecById: GroupPydanticModel.get_organization_by_id. The organization   *)
(* cache is filled by fetch_organizations; a call first looks the id up in *)
(* the cache and only then asks the server for the one organization.       *)
(***************************************************************************)
MaxOrgId == 2
MaxCached == 2
MaxByIdCalls == 2
OrgIdents == 1..MaxOrgId
ThisGroupId == "g1"
NoOrgList == [set |-> FALSE, orgs |-> <<>>]
NoOrg == [kind |-> "none", id |-> 0, from |-> "none"]
RaisedOut == [kind |-> "raise", id |-> 0, from |-> "none"]
NoByIdResp == [kind |-> "none", group |-> "none", valid |-> FALSE]

\* The lists fetch_organizations can store: cached organization objects.
OrgLists ==
    UNION {[1..n -> {[kind |-> "org", id |-> i, from |-> "cache"] : i \in OrgIdents}] :
              n \in 0..MaxCached}

\* What the server can answer to GET /rest/orgs/{org_id}: the request
\* raises, the body is not an object, 'data' is missing or empty, or 'data'
\* is there with its group relationship naming this group, another group,
\* nothing ("absent") or holding a null on the way ("null").
ByIdResponses ==
    {[kind |-> k, group |-> "none", valid |-> FALSE] : k \in {"raises", "nondict", "nodata"}}
    \cup {[kind |-> "data", group |-> g, valid |-> v] :
              g \in {ThisGroupId, "g2", "absent", "null"}, v \in BOOLEAN}

\* The loop over the cache: the first organization with the id, if any.
RECURSIVE CachedOrg(_, _)
CachedOrg(orgs, id) ==
    IF orgs = <<>> THEN NoOrg
    ELSE IF Head(orgs).id = id THEN Head(orgs)
    ELSE CachedOrg(Tail(orgs), id)

\* The comparison of the payload's group relationship id with the group's id.
BelongsToGroup_any(org_group_id, id) == TRUE
BelongsToGroup(org_group_id, id) == org_group_id = id

\* OrganizationPydanticModel.from_api_response: the object built from the
\* payload, or a validation error.
BuildOrganization(r, id) ==
    IF r.valid THEN [kind |-> "org", id |-> id, from |-> "fetch"] ELSE RaisedOut

\* The body of the try block, before the handler.
FetchedOrg(r, id, gid) ==
    IF r.kind \in {"raises", "nondict"} THEN RaisedOut
    ELSE IF r.kind = "nodata" THEN NoOrg
    ELSE IF r.group = "null" THEN RaisedOut
    ELSE IF BelongsToGroup(IF r.group = "absent" THEN "None" ELSE r.group, gid)
         THEN BuildOrganization(r, id)
    ELSE NoOrg

\* except Exception: log and return None.
CaughtById(out) == IF out.kind = "raise" THEN NoOrg ELSE out

ByIdIdle ==
    /\ biCache = NoOrgList
    /\ biPc = "idle"
    /\ biArg = 0
    /\ biBefore = NoOrgList
    /\ biResp = NoByIdResp
    /\ biRet = NoOrg
    /\ biRequests = 0
    /\ biCalls = 0

\* fetch_organizations stores the list it built.
ByIdFetchOrganizations ==
    /\ UNCHANGED otherThanById
    /\ biPc \in {"idle", "returned"}
    /\ biCache = NoOrgList
    /\ \E l \in OrgLists : biCache' = [set |-> TRUE, orgs |-> l]
    /\ biPc' = "idle"
    /\ UNCHANGED <<biArg, biBefore, biResp, biRet, biRequests, biCalls>>

\* get_organization_by_id(org_id) is called.
ByIdCall ==
    /\ UNCHANGED otherThanById
    /\ biPc \in {"idle", "returned"}
    /\ biCalls < MaxByIdCalls
    /\ \E id \in OrgIdents : biArg' = id
    /\ biPc' = "lookup"
    /\ biBefore' = biCache
    /\ biResp' = NoByIdResp
    /\ biRet' = NoOrg
    /\ biRequests' = 0
    /\ biCalls' = biCalls + 1
    /\ UNCHANGED biCache

\* The cache lookup: a hit returns the cached object.
ByIdLookup ==
    /\ UNCHANGED otherThanById
    /\ biPc = "lookup"
    /\ LET hit == IF biCache.set THEN CachedOrg(biCache.orgs, biArg) ELSE NoOrg IN
         IF hit # NoOrg
            THEN /\ biRet' = hit
                 /\ biPc' = "returned"
            ELSE /\ biRet' = NoOrg
                 /\ biPc' = "fetch"
    /\ UNCHANGED <<biCache, biArg, biBefore, biResp, biRequests, biCalls>>

\* The direct fetch, the group check and the handler.
ByIdFetch ==
    /\ UNCHANGED otherThanById
    /\ biPc = "fetch"
    /\ \E r \in ByIdResponses :
         LET out == CaughtById(FetchedOrg(r, biArg, ThisGroupId)) IN
         /\ biResp' = r
         /\ biRet' = out
         /\ biPc' = IF out.kind = "raise" THEN "raised" ELSE "returned"
    /\ biRequests' = biRequests + 1
    /\ UNCHANGED <<biCache, biArg, biBefore, biCalls>>

NextById ==
    \/ ByIdFetchOrganizations
    \/ ByIdCall
    \/ ByIdLookup
    \/ ByIdFetch

(***************************************************************************)
(* SpecTest: ProjectPydanticModel.test_api. A POST starts the test, the    *)
(* polling link is read until the state is final, then the findings URL is *)
(* fetched. The server may make the call wait (a 429, 'in_progress', an    *)
(* unknown state) MaxBusy times in one call, and then answers otherwise.   *)
(***************************************************************************)
MaxBusy == 6
MaxTestCalls == 2
InitialDelay == 5
Max429Delay == 60
MaxProgressDelay == 30

PostAnswers == {"429", "http_error", "request_error", "201_link", "201_nolink",
                "201_nondict", "200"}
PollAnswers == {"429", "http_error", "request_error", "nondict", "in_progress",
                "unknown", "completed_url", "completed_nourl", "failed", "error"}
FindingsAnswers == {"429", "http_error", "request_error", "empty", "invalid",
                    "object", "null"}

\* local_delay after the sleep of a 429.
After429_uncapped(d) == d * 2
After429(d) == IF d * 2 < Max429Delay THEN d * 2 ELSE Max429Delay

\* local_delay after the sleep of an 'in_progress' poll.
AfterInProgress(d) == IF d * 2 < MaxProgressDelay THEN d * 2 ELSE MaxProgressDelay

\* What the POST loop does with an answer, before the outer handler.
PostStep(r) ==
    IF r = "429" THEN "retry"
    ELSE IF r \in {"http_error", "request_error"} THEN "none"
    ELSE IF r = "201_link" THEN "poll"
    ELSE IF r = "201_nondict" THEN "raise"
    ELSE "none"

\* What the polling loop does with an answer, before its handlers.
PollStep(r) ==
    IF r \in {"429", "in_progress", "unknown"} THEN "retry"
    ELSE IF r = "completed_url" THEN "findings"
    ELSE IF r = "nondict" THEN "raise"
    ELSE "none"

\* What the polling loop does with the answer of the findings URL.
FindingsStep(r) ==
    IF r = "429" THEN "retry"
    ELSE IF r \in {"object", "null"} THEN "store"
    ELSE IF r = "invalid" THEN "raise"
    ELSE "none"

\* except Exception in the polling loop and around the whole body.
CaughtInTest(step) == IF step = "raise" THEN "none" ELSE step

TestIdle ==
    /\ taPc = "idle"
    /\ taDelay = 0
    /\ ta429Prev = 0
    /\ ta429Last = 0
    /\ taBetween = FALSE
    /\ taSince = FALSE
    /\ taPost = "none"
    /\ taState = "none"
    /\ taContent = "none"
    /\ taRet = 0
    /\ taSarif = 0
    /\ taSarifBefore = 0
    /\ taBusy = 0
    /\ taCalls = 0

\* test_api is called; without integration id or repo URL it returns None.
TestCall ==
    /\ UNCHANGED otherThanTest
    /\ taPc \in {"idle", "returned"}
    /\ taCalls < MaxTestCalls
    /\ \E ready \in BOOLEAN :
         /\ taPc' = IF ready THEN "post" ELSE "returned"
         /\ taDelay' = IF ready THEN InitialDelay ELSE 0
    /\ ta429Prev' = 0
    /\ ta429Last' = 0
    /\ taBetween' = FALSE
    /\ taSince' = FALSE
    /\ taPost' = "none"
    /\ taState' = "none"
    /\ taContent' = "none"
    /\ taRet' = 0
    /\ taSarifBefore' = taSarif
    /\ taBusy' = 0
    /\ taCalls' = taCalls + 1
    /\ UNCHANGED taSarif

\* The sleep of a 429 and the doubling after it.
Wait429 ==
    /\ ta429Prev' = ta429Last
    /\ ta429Last' = taDelay
    /\ taBetween' = taSince
    /\ taSince' = FALSE
    /\ taDelay' = After429(taDelay)
    /\ taBusy' = taBusy + 1

\* One pass of the POST loop and what follows it.
TestPost ==
    /\ UNCHANGED otherThanTest
    /\ taPc = "post"
    /\ \E r \in PostAnswers :
         LET step == CaughtInTest(PostStep(r)) IN
         /\ r = "429" => taBusy < MaxBusy
         /\ taPost' = r
         /\ IF step = "retry"
               THEN /\ Wait429
                    /\ taPc' = "post"
            ELSE IF step = "poll"
               THEN /\ taDelay' = InitialDelay
                    /\ ta429Prev' = 0
                    /\ ta429Last' = 0
                    /\ taSince' = FALSE
                    /\ taPc' = "poll"
                    /\ UNCHANGED <<taBetween, taBusy>>
            ELSE /\ taPc' = IF step = "raise" THEN "raised" ELSE "returned"
                 /\ UNCHANGED <<taDelay, ta429Prev, ta429Last, taBetween, taSince, taBusy>>
    /\ UNCHANGED <<taState, taContent, taRet, taSarif, taSarifBefore, taCalls>>

\* One pass of the polling loop up to the state it read.
TestPoll ==
    /\ UNCHANGED otherThanTest
    /\ taPc = "poll"
    /\ \E r \in PollAnswers :
         LET step == CaughtInTest(PollStep(r)) IN
         /\ step = "retry" => taBusy < MaxBusy
         /\ taState' = r
         /\ IF r = "429"
               THEN /\ Wait429
                    /\ taPc' = "poll"
            ELSE IF r = "in_progress"
               THEN /\ taDelay' = AfterInProgress(taDelay)
                    /\ taSince' = TRUE
                    /\ taBusy' = taBusy + 1
                    /\ taPc' = "poll"
                    /\ UNCHANGED <<ta429Prev, ta429Last, taBetween>>
            ELSE IF r = "unknown"
               THEN /\ taBusy' = taBusy + 1
                    /\ taPc' = "poll"
                    /\ UNCHANGED <<taDelay, ta429Prev, ta429Last, taBetween, taSince>>
            ELSE /\ taPc' = IF step = "findings" THEN "findings"
                            ELSE IF step = "raise" THEN "raised" ELSE "returned"
                 /\ UNCHANGED <<taDelay, ta429Prev, ta429Last, taBetween, taSince, taBusy>>
    /\ UNCHANGED <<taPost, taContent, taRet, taSarif, taSarifBefore, taCalls>>

\* The rest of the 'completed' branch: the findings URL is fetched.
TestFindings ==
    /\ UNCHANGED otherThanTest
    /\ taPc = "findings"
    /\ \E r \in FindingsAnswers :
         LET step == CaughtInTest(FindingsStep(r)) IN
         /\ r = "429" => taBusy < MaxBusy
         /\ taContent' = r
         /\ IF step = "retry"
               THEN /\ Wait429
                    /\ taPc' = "poll"
                    /\ UNCHANGED <<taRet, taSarif>>
            ELSE IF step = "store"
               THEN /\ taSarif' = IF r = "object" THEN taCalls ELSE 0
                    /\ taRet' = taSarif'
                    /\ taPc' = "returned"
                    /\ UNCHANGED <<taDelay, ta429Prev, ta429Last, taBetween, taSince, taBusy>>
            ELSE /\ taPc' = IF step = "raise" THEN "raised" ELSE "returned"
                 /\ UNCHANGED <<taRet, taSarif, taDelay, ta429Prev, ta429Last,
                                taBetween, taSince, taBusy>>
    /\ UNCHANGED <<taPost, taState, taSarifBefore, taCalls>>

NextTest ==
    \/ TestCall
    \/ TestPost
    \/ TestPoll
    \/ TestFindings

\* The state after construction of the client, no call made.
Start ==
    /\ RLStart /\ PagIdle /\ PoolIdle /\ ResStart /\ BatchIdle /\ FacStart
    /\ IssueStart /\ CoolStart /\ RetryIdle
    /\ NestIdle
    /\ RaceIdle
    /\ ShutIdle
    /\ ByIdIdle
    /\ TestIdle

InitNest == Start

SpecNest == InitNest /\ [][NextNest]_vars

InitRace == Start

SpecRace == InitRace /\ [][NextRace]_vars

InitShut == Start

SpecShut == InitShut /\ [][NextShut]_vars

InitById == Start
SpecById == InitById /\ [][NextById]_vars

InitTest == Start
SpecTest == InitTest /\ [][NextTest]_vars
\* The thread running test_api is never held for ever: every request has a
\* timeout and every sleep is finite.
SpecTestLive == SpecTest /\ WF_vars(NextTest)

InitRetry == Start

SpecRetry == InitRetry /\ [][NextRetry]_vars

InitCool == Start

SpecCool == InitCool /\ [][NextCool]_vars

InitIssue == Start

SpecIssue == InitIssue /\ [][NextIssue]_vars

InitFac == Start

SpecFac == InitFac /\ [][NextFac]_vars

InitBatch == Start

SpecBatch == InitBatch /\ [][NextBatch]_vars

InitRes == Start

SpecRes == InitRes /\ [][NextRes]_vars

InitPool == Start

SpecPool == InitPool /\ [][NextPool]_vars

InitPag == Start

SpecPag == InitPag /\ [][NextPag]_vars

InitRL == Start

SpecRL == InitRL /\ [][NextRL]_vars

(***************************************************************************)
(* The claims.                                                             *)
(***************************************************************************)

\* C1: once a 429 with Retry-After: d has been processed, no thread sends a
\* request before d seconds have elapsed since that 429 (a request already
\* on the wire apart), whatever the interleaving: a request that is sent
\* goes out at a clock value no smaller than the end of every cooldown
\* recorded before the send.
C1_NoSendInsideCooldown ==
    \A t \in Threads : pc[t] = "wire" => sentAt[t] >= sentCool[t]

\* C2: only the first GET of a paginate call carries the caller's params;
\* every later GET goes to the next-link of the response before it and is
\* handed no params (None or {}), for relative and absolute next-links.
C2_ParamIsolation ==
    /\ lastReq.n = 1 =>
         lastReq.params = (IF pgParams = "filter" THEN "filter" ELSE "empty")
    /\ lastReq.n >= 2 =>
         /\ lastReq.params \in {"none", "empty"}
         /\ lastReq.from # NoLink
         /\ lastReq.endpoint = EndpointFor(lastReq.from)

\* C2, the case: a call with non-empty params has issued its third GET, to
\* a relative next-link.
C2_Witness ==
    /\ pgParams = "filter"
    /\ lastReq.n = 3
    /\ lastReq.from.form = "rel"

\* C7 as stated: a call whose response has a non-2xx status raises, so a
\* call that returns a response returns one with a 2xx status.
C7_Non2xxRaises ==
    \A t \in Threads :
        result[t].kind = "returned" =>
            (result[t].resp.status >= 200 /\ result[t].resp.status < 300)

\* C7 as amended: a finished call has raised exactly when the status of its
\* response is 4xx or 5xx; otherwise it has returned the very response that
\* session.<method> produced.
C7_ErrorStatusRaises ==
    \A t \in Threads :
        (pc[t] = "idle" /\ calls[t] > 0) =>
            /\ result[t].kind \in {"raised", "returned"}
            /\ result[t].kind = "raised" <=>
                  (resp[t].status >= 400 /\ resp[t].status < 600)
            /\ result[t].resp = resp[t]

\* C7, the case: one call has raised on a 500 and another has returned a 304.
C7_Witness ==
    \E t, u \in Threads :
        /\ result[t].kind = "raised" /\ result[t].resp.status = 500
        /\ result[u].kind = "returned" /\ result[u].resp.status = 304

\* C10: when close() has returned, every task submitted before the call has
\* finished: none is pending or running.
C10_CloseDrains ==
    closePc = "closed" => \A i \in Tasks : task[i] \in {"new", "done", "failed"}

\* C10, the case: close() has returned and at least two tasks were still
\* pending or running when it was called, one ended well and one failed.
C10_Witness ==
    /\ closePc = "closed"
    /\ Cardinality(atClose) >= 2
    /\ \E i, j \in atClose : task[i] = "done" /\ task[j] = "failed"

PropertyOps == {"Group.organizations", "Group.issues", "Project.issues"}
FetchOps == {"Group.fetch_organizations", "Group.fetch_issues",
             "Project.fetch_issues"}
FanOutOps == {"Group.organizations", "Group.issues",
              "Group.fetch_organizations", "Group.fetch_issues",
              "Organization.get_projects"}

\* The cache field behind a property or a method.
CacheOf(name) ==
    CASE name \in {"Group.organizations", "Group.fetch_organizations"} -> g_organizations
      [] name \in {"Group.issues", "Group.fetch_issues"} -> g_issues
      [] name \in {"Project.issues", "Project.fetch_issues"} -> p_issues
      [] OTHER -> o_projects

\* C3: a read of a relationship property (Group.organizations, Group.issues,
\* Project.issues) paginates at most once, never raises, and returns the very
\* list object that is then in the cache; a read that finds the cache filled
\* (the second of two reads in a row) does not paginate and returns that
\* cached object, whatever the first fetch had found.
C3_PropertyReadsAreCached ==
    last.op \in PropertyOps =>
        /\ last.pag <= 1
        /\ ~last.raised
        /\ last.ret.set
        /\ last.ret = CacheOf(last.op)
        /\ last.pre.set => (last.pag = 0 /\ last.ret = last.pre)

\* C3 witness: a second read of Group.issues under the lazy strategy, after
\* a first read whose fetch failed, hands back the list of the first read.
C3_Witness ==
    /\ last.op = "Group.issues"
    /\ last.pre.set
    /\ last.pre.by = "Group.issues"
    /\ last.pre.how = "error"
    /\ last.pag = 0
    /\ last.ret = last.pre
    /\ loading_strategy = "lazy"

\* C4 (as stated): a resolution that paginated N payloads of which K
\* construction tasks failed has N - K elements and K error entries, in
\* every resolver.
C4_LengthIsNMinusK ==
    (last.op \in FanOutOps /\ last.pag = 1 /\ ~last.failedPage) =>
        /\ last.len = last.N - last.K
        /\ last.errs = last.K

\* C4 (amended): a resolution that paginated N payloads submits N - M tasks,
\* M being the payloads without id that Organization.get_projects skips with
\* a warning each (M = 0 in the Group resolvers); when K tasks fail the list
\* has N - M - K elements and K error entries are emitted.
C4_LengthIsNMinusSkippedMinusK ==
    (last.op \in FanOutOps /\ last.pag = 1 /\ ~last.failedPage) =>
        /\ last.sub = last.N - last.M
        /\ last.len = last.N - last.M - last.K
        /\ last.errs = last.K
        /\ last.warns = last.M
        /\ (last.op # "Organization.get_projects" => last.M = 0)
        /\ ~last.raised

\* C4 witness: get_projects over two payloads, one without id, the other
\* failing construction; and a Group resolver with one of two tasks failing.
C4_Witness ==
    \/ /\ last.op = "Organization.get_projects"
       /\ last.N = 2 /\ last.M = 1 /\ last.K = 1 /\ last.len = 0
    \/ /\ last.op = "Group.fetch_organizations"
       /\ last.N = 2 /\ last.K = 1 /\ last.len = 1

\* C5 (as stated): an explicit fetch with filter params on a filled cache
\* queries again and does not return the cached list, in all three methods.
C5_FilterAlwaysRequeries ==
    (last.op \in FetchOps /\ Truthy(last.params) /\ last.pre.set) =>
        /\ last.pag = 1
        /\ last.ret # last.pre

\* C5 (amended): on a filled cache only Group.fetch_issues(params) queries
\* again, returning a new list and leaving the cache as it was;
\* Group.fetch_organizations(params) and Project.fetch_issues(params) return
\* the cached list without a request.
C5_OnlyGroupIssuesRequeries ==
    (last.op \in FetchOps /\ Truthy(last.params) /\ last.pre.set) =>
        IF last.op = "Group.fetch_issues"
        THEN /\ last.pag = 1
             /\ last.ret # last.pre
             /\ g_issues = last.pre
        ELSE /\ last.pag = 0
             /\ last.ret = last.pre
             /\ CacheOf(last.op) = last.pre

\* C5 witness: Group.fetch_issues with filter params on a filled cache.
C5_Witness ==
    /\ last.op = "Group.fetch_issues"
    /\ Truthy(last.params)
    /\ last.pre.set
    /\ last.pag = 1
    /\ last.N > 0

\* C6: get_instance without group_id returns a group only when the complete
\* listing holds exactly one group; it raises when a page of the listing
\* could not be retrieved.
C6_NoSilentPick ==
    (last.op = "Group.get_instance" /\ last.mode = "auto" /\ ~last.raised) =>
        /\ ~last.failedPage
        /\ last.N = 1

\* C8 (as stated): a resolution whose pagination raises a transport error
\* raises it to its caller.
C8_TransportFailureRaises ==
    (last.op \in FanOutOps /\ last.pag = 1 /\ last.failedPage) => last.raised

\* C8 (amended): a resolution whose pagination raises logs one error entry and
\* returns an empty list instead of raising; a fetch without filter params
\* leaves an empty list in the cache.
C8_TransportFailureYieldsEmptyList ==
    (last.op \in FanOutOps /\ last.pag = 1 /\ last.failedPage) =>
        /\ ~last.raised
        /\ last.ret.set
        /\ last.ret.how = "error"
        /\ last.errs = 1
        /\ (~Truthy(last.params) =>
               CacheOf(last.op).set /\ CacheOf(last.op).how = "error")

\* C8 witness: Organization.get_projects whose first page request fails.
C8_Witness ==
    /\ last.op = "Organization.get_projects"
    /\ last.failedPage
    /\ last.N = 0
    /\ ~last.raised

\* C9 (as stated): when a page fails after payloads were gathered, the
\* failure is logged, not raised, and every gathered payload is taken on to
\* construction: skipped, failed or in the list.
C9_EarlierPagesSurvive ==
    (last.op \in FanOutOps /\ last.pag = 1 /\ last.failedPage /\ last.N > 0) =>
        /\ ~last.raised
        /\ last.errs >= 1
        /\ last.len + last.K + last.M = last.N

\* C9 (amended): when a page fails after payloads were gathered, the failure
\* is logged once at error level and not raised, but the gathered payloads
\* are dropped: no task is submitted and the list is empty.
C9_EarlierPagesDropped ==
    (last.op \in FanOutOps /\ last.pag = 1 /\ last.failedPage /\ last.N > 0) =>
        /\ ~last.raised
        /\ last.errs = 1
        /\ last.sub = 0
        /\ last.len = 0

\* C9 witness: Group.fetch_issues whose second page fails after the first
\* gave a payload.
C9_Witness ==
    /\ last.op = "Group.fetch_issues"
    /\ last.failedPage
    /\ last.N = 1
    /\ last.len = 0

\* The futures of the fan-out whose task returned an entity.
Succeeded == {f \in 1..bN : bFuture[f] = "returned"}

\* q without the elements outside S, order kept.
RECURSIVE Restrict(_, _)
Restrict(q, S) ==
    IF q = <<>> THEN <<>>
    ELSE IF Head(q) \in S THEN <<Head(q)>> \o Restrict(Tail(q), S)
         ELSE Restrict(Tail(q), S)

\* C11 (as stated): when the resolver returns, all N futures were consumed
\* and the list holds each successful child once, in completion order.
C11_ResultsInCompletionOrder ==
    bPc = "returned" =>
        /\ Len(bYielded) = bN
        /\ bResults = Restrict(bFinished, Succeeded)

\* C11 (amended): when the resolver returns, all N futures were consumed,
\* one error entry was logged per failed task, and the list holds each
\* successful child exactly once; the children whose futures completed
\* after as_completed was called are in completion order among themselves
\* and come after those that were complete before, whose order is free.
C11_ResultsArePermutation ==
    bPc = "returned" =>
        /\ Len(bYielded) = bN
        /\ SeqToSet(bYielded) = 1..bN
        /\ bErrors = Cardinality({f \in 1..bN : bFuture[f] = "raised"})
        /\ Len(bResults) = Cardinality(Succeeded)
        /\ SeqToSet(bResults) = Succeeded
        /\ \E k \in 0..Len(bFinished) :
             LET early == {bFinished[i] : i \in 1..k}
             IN /\ \E m \in 0..Len(bYielded) :
                     /\ {bYielded[i] : i \in 1..m} = early
                     /\ [i \in 1..(Len(bYielded) - m) |-> bYielded[m + i]]
                          = Restrict(bFinished, (1..bN) \ early)

\* C11 witness: three tasks, one raised before the two others were
\* consumed, one completed after the collection started, two children in
\* the list.
C11_Witness ==
    /\ bPc = "returned"
    /\ bN = 3
    /\ Len(bResults) = 2
    /\ bErrors = 1
    /\ bFuture[bYielded[1]] = "raised"
    /\ bFinished[3] = bYielded[3]
    /\ bYielded # bFinished

\* C12: the loading strategy is read when a property is accessed, and a
\* relationship that was not cached is resolved from the API by a later
\* resolution: a property read that does not itself run under the eager
\* strategy, or an explicit fetch, never hands back a list that no request
\* produced.
C12_LaterResolutionFetches ==
    (last.op \in PropertyOps \cup FetchOps /\ last.strat # "eager"
     /\ last.ret.set) =>
        last.ret.how \in {"items", "empty", "error"}

\* C13: under the eager strategy a child that a parent constructs while it
\* resolves its children does not start a resolution of its own: a project
\* built by the factory for a resolving parent has fetched no issues.
C13_ChildrenDoNotResolve ==
    (fac.op = "Project.from_api_response" /\ fac.caller = "parent_pass"
     /\ ~fac.raised) =>
        /\ ~fac.eagerIssues
        /\ ~proj.issues

\* C14: when get_instance has returned a group that it built under the eager
\* strategy, the caches _organizations and _issues are filled, and a read of
\* the organizations property of that group makes no request and returns the
\* cached list.
C14_EagerConstructionFillsCache ==
    /\ (g_pc = "ready" /\ g_built = "eager") =>
           g_organizations.set /\ g_issues.set
    /\ (last.op = "Group.organizations" /\ g_built = "eager") =>
           last.pag = 0 /\ last.ret = last.pre /\ last.ret.set

\* C14 witness: the organizations property read on a group built eagerly,
\* whose cache the eager pass of get_instance had filled.
C14_Witness ==
    /\ last.op = "Group.organizations"
    /\ g_built = "eager"
    /\ last.pre.by = "Group.get_instance"
    /\ last.pag = 0
    /\ g_issues.by = "Group.get_instance"

\* C15: after Group.fetch_organizations or Project.fetch_issues has returned,
\* with or without filter params, the cache of the entity is filled and is
\* the very list the call returned (hence of the same length).
C15_FetchLeavesCacheFilled ==
    (last.op \in {"Group.fetch_organizations", "Project.fetch_issues"}
     /\ ~last.raised) =>
        /\ CacheOf(last.op).set
        /\ last.ret = CacheOf(last.op)

\* C15 witness: a fetch called with filter params on an empty cache has
\* paginated and returned.
C15_Witness ==
    /\ last.op \in {"Group.fetch_organizations", "Project.fetch_issues"}
    /\ Truthy(last.params)
    /\ ~last.pre.set
    /\ last.pag = 1
    /\ ~last.raised
    /\ last.ret = CacheOf(last.op)

\* The keys that the attributes of an entity carry, as an 'attributes'
\* object of a payload: the declared ones and no other.
KeysOf(a) == [present |-> TRUE, name |-> a.name, extra |-> FALSE]

\* A summary payload: an id, no 'attributes', no 'relationships'.
IsSummary(pd) == pd.id # "none" /\ ~pd.attrs.present /\ ~pd.rels

\* The factory was called on a summary payload with
\* fetch_full_details_if_summary = True.
HydrationCall ==
    /\ fac.op = "Project.from_api_response"
    /\ fac.flag
    /\ IsSummary(fac.payload)

C17_NoEntityFromSummary ==
    /\ proj.made =>
           /\ ~IsSummary(fac.used)
           /\ fac.used.attrs.present
           /\ proj.attrs.name \in Names
    /\ (HydrationCall /\ fac.got \in {"raise", "nodata"}) =>
           /\ fac.raised
           /\ ~proj.made

\* C17 witness: the hydration GET of a summary payload failed, the failure
\* was logged, and the factory raised.
C17_Witness ==
    /\ HydrationCall
    /\ fac.got = "raise"
    /\ fac.gets = 1
    /\ fac.errs = 1
    /\ fac.raised
    /\ ~proj.made

\* C18: every entity a factory returned has its client set, and the context
\* references of an issue (its client, its _project and its _group) are the
\* ones it was constructed with.
C18_ContextFixedAtConstruction ==
    /\ proj.made => proj.client
    /\ iss.made =>
           /\ iss.client
           /\ iss.project = iss.builtProject
           /\ iss.group = iss.builtGroup

\* The Issue was created with only a Group context, its relationships name
\* organization o1 and project p1, and get_project has been called on it.
GroupOnlyResolution ==
    /\ icall.op = "Issue.get_project"
    /\ issue.ctx = "group"
    /\ issue.org_id = "o1"
    /\ issue.project_id = "p1"

\* C19: for an Issue created with only a Group context whose relationships
\* name o1 and p1 and whose group's cached organization list holds o1,
\* resolving the project delegates to o1's get-one-project call (or finds
\* the project already resolved) and, unless that call failed, returns a
\* Project with id p1.
C19_ResolvesThroughGroup ==
    (GroupOnlyResolution /\ issue.groupHasOrg) =>
        /\ icall.orgCalls = 1 \/ icall.ret = "p1"
        /\ (icall.warns = 0 /\ icall.errs = 0) => icall.ret = "p1"

\* C20 as stated: with a project_id, no project attached and no
\* Organization attached or in the group's cached list, resolving
\* the project returns nothing, raises nothing, leaves the project unset and
\* logs exactly one warning line.
C20_OneWarning ==
    (icall.op = "Issue.get_project" /\ issue.project_id = "p1"
     /\ issue.ctx # "project" /\ ~issue.org /\ ~issue.groupHasOrg) =>
        /\ icall.ret = "none"
        /\ ~icall.raised
        /\ issue.project = "none"
        /\ icall.warns = 1

\* C20 amended: with a project_id, no project attached and no
\* Organization attached, resolving
\* the project returns nothing, raises nothing, leaves the project unset,
\* calls no organization, and logs one debug line and no warning or error
\* line, whether or not the group's cached list holds the organization.
C20_NoOrgReturnsNoneAtDebug ==
    (icall.op = "Issue.get_project" /\ issue.project_id = "p1"
     /\ issue.ctx # "project" /\ ~issue.org) =>
        /\ icall.ret = "none"
        /\ ~icall.raised
        /\ issue.project = "none"
        /\ icall.orgCalls = 0
        /\ icall.warns = 0
        /\ icall.errs = 0
        /\ icall.debugs = 1

\* C20 witness: get_project has returned on an Issue with a Group context
\* only, whose organization is not in the group's cached list.
C20_Witness ==
    /\ icall.op = "Issue.get_project"
    /\ issue.ctx = "group"
    /\ issue.org_id = "o1"
    /\ issue.project_id = "p1"
    /\ ~issue.groupHasOrg
    /\ icall.ret = "none"
    /\ icall.debugs = 1

C24_HeldThreadsSendApart ==
    \A t, u \in Threads :
        (t # u /\ held[t] /\ held[u] /\ pc[t] = "wire" /\ pc[u] = "wire") =>
            sentAt[t] # sentAt[u]

\* C25: a caller of get/post/put/delete never observes an error caused by a
\* 429: no call ends by raising on a response with status 429.
C25_429NeverSurfaced ==
    \A t \in Threads :
        result[t].kind = "raised" => result[t].resp.status # 429

\* C26: every read and every write of the rate-limit state happens while
\* the mutex is held by the thread that reads or writes: no thread takes
\* the step that reads rate_limit_delay (line 110), nor a step that changes
\* rate_limit_delay or last_request_time, while another thread holds the
\* mutex.
C26_StateOnlyUnderMutex ==
    [][\A t \in Threads :
          (pc[t] # pc'[t] /\ (pc[t] = "rl_check"
                              \/ rate_limit_delay' # rate_limit_delay
                              \/ last_request_time' # last_request_time))
              => lock \in {0, t}]_vars

\* C27: one call of post is put on the wire at most once: the rate-limit
\* layer sends it once and the connection-level retry does not send a POST
\* again.
C27_PostSentOnce ==
    /\ rtApiSends <= 1
    /\ rtMethod = "POST" => rtSends <= 1

\* The parts of C28 the code keeps: with max_pages given at most max_pages
\* requests are issued (none for 0); every request after the first goes to
\* the next-link of the response before it; a response without a next-link
\* is the last one.
BoundedAndForward ==
    /\ pgMaxPages >= 0 => lastReq.n <= pgMaxPages
    /\ lastReq.n > 1 =>
          /\ lastReq.from # NoLink
          /\ lastReq.endpoint = EndpointFor(lastReq.from)
    /\ (pgResp # NoPage /\ pgResp.next = NoLink) => pgPc \in {"done", "raised"}

\* C28 as stated: paginate issues at most max_pages requests (none when
\* max_pages is 0), follows the next-links only, ends as soon as a response
\* has no next-link, and without max_pages ends only when the last response
\* had no next-link.
C28_EndsOnlyWithoutNextLink ==
    /\ BoundedAndForward
    /\ (pgPc \in {"done", "raised"} /\ pgMaxPages = -1) => pgResp.next = NoLink

\* C28, amended: as above, but without max_pages the call also ends at a
\* page that carries a next-link and lacks the data_key.
C28_EndsWithoutNextLinkOrDataKey ==
    /\ BoundedAndForward
    /\ (pgPc \in {"done", "raised"} /\ pgMaxPages = -1) =>
          \/ pgResp.next = NoLink
          \/ pgDataKey /\ pgResp.data = "missing"

\* A call with max_pages = 2 that ended after two requests although the
\* second page carried a next-link and was well-formed.
C28_Witness ==
    /\ pgPc = "done"
    /\ pgMaxPages = 2
    /\ lastReq.n = 2
    /\ pgResp.next # NoLink
    /\ ~(pgDataKey /\ pgResp.data = "missing")

\* The last page was answered, and paginate ended there without raising,
\* logged, and left the items yielded before it as the whole sequence.
EndedQuietly ==
    /\ pgPc = "done"
    /\ lastReq.n = page_count
    /\ yielded = pgBefore
    /\ pgErrors + pgWarnings >= 1

C30_NonListIsOneItem ==
    (pgDataKey /\ pgResp.kind = "object" /\ pgResp.data = "scalar") =>
        /\ Len(yielded) = Len(pgBefore) + 1
        /\ SubSeq(yielded, 1, Len(pgBefore)) = pgBefore
        /\ yielded[Len(yielded)] = [page |-> page_count, ix |-> 0]
        /\ pgPc # "raised"
        /\ pgWarnings >= 1
        /\ next_url = pgResp.next
        /\ pgResp.next = NoLink => pgPc = "done"
        /\ pgPc = "done" =>
              pgResp.next = NoLink \/ ~MayFetch(next_url, page_count, pgMaxPages)

\* A second page whose value at data_key was no list, with a next-link.
C30_Witness ==
    /\ pgDataKey
    /\ pgResp.kind = "object"
    /\ pgResp.data = "scalar"
    /\ pgResp.next # NoLink
    /\ page_count = 2
    /\ pgPc = "run"

\* Every worker thread is held by a construction task that waits in
\* as_completed for sub-tasks which are still in the queue.
Starved ==
    /\ nQueue # <<>>
    /\ Cardinality({p \in Parents : nParent[p] = "waiting"}) = MaxWorkers
    /\ \A p \in Parents : nParent[p] = "waiting" => nKids[p].queued > 0

\* C31: construction tasks that resolve through the pool they run in never
\* come to a state in which all workers wait for queued sub-tasks.
C31_NoPoolStarvation == ~Starved

\* C32: threads that read the uncached property at the same time cause at
\* most one pagination, and all get the one list that stays cached.
C32_FetchOnceSameList ==
    /\ rcFetches <= 1
    /\ \A t \in Racers : rcPc[t] = "done" => rcRet[t] = rcCache

\* The reads and fetches of the two group relationships, a fetch of the
\* group issues only without filter params.
GroupListCall ==
    /\ last.op \in {"Group.organizations", "Group.fetch_organizations",
                    "Group.issues", "Group.fetch_issues"}
    /\ last.op = "Group.fetch_issues" => ~Truthy(last.params)

C34_NonLazyReadStoresEmpty ==
    /\ (last.op \in PropertyOps /\ ~last.pre.set /\ last.strat = "eager") =>
          /\ last.pag = 0
          /\ last.sub = 0
          /\ last.len = 0
          /\ ~last.raised
          /\ last.ret.set
          /\ last.ret.how = "unfetched"
          /\ CacheOf(last.op) = last.ret
    /\ (/\ last.op \in PropertyOps \cup FetchOps
        /\ last.op \in FetchOps => ~Truthy(last.params)
        /\ last.pre.set
        /\ last.pre.how = "unfetched") =>
          /\ last.pag = 0
          /\ ~last.raised
          /\ last.ret = last.pre
          /\ CacheOf(last.op) = last.pre

\* Under the lazy strategy Group.fetch_organizations() gives back the list
\* that a read of Group.organizations had stored under the eager strategy.
C34_Witness ==
    /\ loading_strategy = "lazy"
    /\ last.op = "Group.fetch_organizations"
    /\ last.params = "none"
    /\ last.pre.set
    /\ last.pre.how = "unfetched"
    /\ last.pre.by = "Group.organizations"
    /\ last.ret = last.pre

\* C35: while a cooldown is pending (a delay is stored and its end,
\* last_request_time + rate_limit_delay, is still ahead), no step that
\* leaves a delay stored moves that end to an earlier time, and
\* last_request_time never decreases.
C35_CooldownNeverShortened ==
    [][/\ (cdDelay > 0 /\ cdLast + cdDelay > cdClock /\ cdDelay' > 0) =>
            cdLast' + cdDelay' >= cdLast + cdDelay
       /\ cdLast' >= cdLast]_vars

\* C36: once close() was called the executor accepts no task; a resolution
\* whose submit_task is refused raises to its caller and leaves the cache
\* unset, and no list that lacks payloads is ever cached.
C36_NoWorkAfterClose ==
    /\ shShutdown => shSubmitted = shAtClose
    /\ shRefused => (shPc = "raised" /\ shCache = "unset")
    /\ shCache # "partial"

\* close() came after the first task was accepted: the next submit_task is
\* refused and the resolution has raised.
C36_Witness ==
    /\ shRefused
    /\ shSubmitted >= 1
    /\ shSubmitted < shN
    /\ shPc = "raised"

\* The items of the pages q, the first of them being page number k, as the
\* server laid them out: the elements of the array at data_key in their
\* order, one item for a value that is no array, nothing for a body that is
\* no JSON, no object, or lacks the key.
RECURSIVE Flattened(_, _)
Flattened(q, k) ==
    IF q = <<>> THEN <<>>
    ELSE LET r == Head(q)
             own == IF r.kind # "object" \/ r.data = "missing" THEN <<>>
                    ELSE IF r.data = "scalar" THEN <<[page |-> k, ix |-> 0]>>
                    ELSE [i \in 1..r.n |-> [page |-> k, ix |-> i]]
         IN own \o Flattened(Tail(q), k + 1)

\* The pages whose body was a JSON value, one item each.
RECURSIVE WholePages(_, _)
WholePages(q, k) ==
    IF q = <<>> THEN <<>>
    ELSE (IF Head(q).kind \in {"object", "array"}
          THEN <<[page |-> k, ix |-> 0]>> ELSE <<>>)
         \o WholePages(Tail(q), k + 1)

\* C37: with data_key the sequence yielded is the concatenation, in page
\* order, of the arrays at data_key of the pages fetched, each in its own
\* order; an empty array adds nothing and the call goes on along the
\* next-link; without data_key every page is yielded once.
C37_FlatteningKeepsServerOrder ==
    /\ pgDataKey => yielded = Flattened(pgPages, 1)
    /\ ~pgDataKey => yielded = WholePages(pgPages, 1)
    /\ (/\ pgDataKey
        /\ pgResp.kind = "object" /\ pgResp.data = "list" /\ pgResp.n = 0
        /\ MayFetch(pgResp.next, page_count, pgMaxPages)) => pgPc = "run"

\* Three pages were fetched with data_key: two items, no item, one item.
C37_Witness ==
    /\ pgDataKey
    /\ Len(pgPages) = 3
    /\ \A i \in 1..3 : pgPages[i].kind = "object" /\ pgPages[i].data = "list"
    /\ pgPages[1].n = 2 /\ pgPages[2].n = 0 /\ pgPages[3].n = 1
    /\ Len(yielded) = 3

\* C38: every paginate call, the first and a later one with the same
\* arguments, starts at the endpoint argument with the caller's params:
\* nothing of an earlier call is carried over and the arguments are as
\* the caller gave them.
C38_EveryCallStartsAfresh ==
    /\ (pgPc = "run" /\ page_count = 0) =>
          /\ next_url = pgEndpoint
          /\ current_params = FirstParams(pgParams)
          /\ yielded = <<>>
    /\ lastReq.n = 1 =>
          /\ lastReq.from = NoLink
          /\ lastReq.endpoint = EndpointFor(pgEndpoint)
          /\ lastReq.params = FirstParams(pgParams)

\* The first request of a second call with non-empty params and
\* max_pages = 1: the first call had stopped with a next-link pending.
C38_Witness ==
    /\ pgCalls = 2
    /\ pgParams = "filter"
    /\ pgMaxPages = 1
    /\ lastReq.n = 1
    /\ pgResp.next # NoLink

(***************************************************************************)
(* C39: get_organization_by_id returns the cached organization with the    *)
(* id, sending no request, when the group's cache holds one; otherwise it  *)
(* sends one request and returns the fetched organization only if the      *)
(* payload's group relationship id is this group's id, and None on a       *)
(* mismatch, on missing data and on every error, never raising; the        *)
(* group's organization cache is the same after the call as before it.     *)
(***************************************************************************)
HadCached == biBefore.set /\ CachedOrg(biBefore.orgs, biArg) # NoOrg
C39_ByIdReadOnly ==
    /\ biPc # "raised"
    /\ biPc \in {"lookup", "fetch"} => biCache = biBefore
    /\ biPc = "returned" =>
         /\ biCache = biBefore
         /\ HadCached =>
              /\ biRet = CachedOrg(biBefore.orgs, biArg)
              /\ biRet.from = "cache"
              /\ biRequests = 0
         /\ ~HadCached =>
              /\ biRequests = 1
              /\ biRet # NoOrg =>
                   /\ biRet = [kind |-> "org", id |-> biArg, from |-> "fetch"]
                   /\ biResp.kind = "data"
                   /\ biResp.group = ThisGroupId
              /\ biResp.kind # "data" \/ biResp.group # ThisGroupId => biRet = NoOrg

\* A call that missed the cache of a loaded group, fetched an organization
\* of this group and returned it, the cache left as it was.
C39_Witness ==
    /\ biPc = "returned"
    /\ biBefore.set
    /\ biBefore.orgs # <<>>
    /\ ~HadCached
    /\ biRet.from = "fetch"
    /\ biCache = biBefore

(***************************************************************************)
(* C40: test_api never raises; it returns SARIF data, stored in            *)
(* _sarif_data, only after a POST answered 201, a poll reported            *)
(* 'completed' and the findings URL gave content, and returns None with    *)
(* _sarif_data unchanged on every other path; every 429 on the POST or on  *)
(* a poll is waited out with a delay that starts at 5 seconds, is twice    *)
(* the delay of the 429 before it and is never above 60 seconds.           *)
(***************************************************************************)
SarifOnlyOnSuccess ==
    /\ taPc # "raised"
    /\ taRet # 0 =>
         /\ taPost = "201_link"
         /\ taState = "completed_url"
         /\ taContent = "object"
         /\ taSarif = taRet
    /\ taPc = "returned" /\ taContent \notin {"object", "null"} =>
         /\ taRet = 0
         /\ taSarif = taSarifBefore
DelayWithinCap ==
    /\ taDelay <= Max429Delay
    /\ ta429Last <= Max429Delay
\* A call that is under way comes to its return.
TestApiTerminates == (taPc \in {"post", "poll", "findings"}) ~> (taPc = "returned")
C40_DelayDoublesOnEvery429 ==
    /\ SarifOnlyOnSuccess
    /\ DelayWithinCap
    /\ ta429Last > 0 /\ ta429Prev = 0 => ta429Last = InitialDelay
    /\ ta429Prev > 0 => ta429Last = After429(ta429Prev)
\* What holds of the delays: doubling between two 429s with no
\* 'in_progress' poll between them.
DoublesBetweenAdjacent429 ==
    /\ SarifOnlyOnSuccess
    /\ DelayWithinCap
    /\ ta429Prev > 0 /\ ~taBetween => ta429Last = After429(ta429Prev)

====
